---- MODULE Spec2Model ----
(***************************************************************************)
(* Model of the ILI9341 display driver (ili9341.c).                        *)
(*                                                                         *)
(* The driver talks to the panel through two transport routines, lcd_cmd   *)
(* (one byte, D/C low) and lcd_data (len bytes, D/C high).  The model      *)
(* keeps the transfers they issue in the variable wire, and translates     *)
(* every driver routine to an operator that yields the transfers the       *)
(* routine issues, in order.  The orientation structure lcd_orientation is *)
(* the only driver state that outlives a call.                             *)
(***************************************************************************)
EXTENDS Integers, Sequences, FiniteSets, TLC

VARIABLES
    lcd_orientation,  \* orientation_properties_t: width, height, orientation
    mac,              \* memory-access-control byte last sent to the panel
    char_pixel,       \* the static transfer buffer pixel[] of ILI9341DrawChar
    wire,             \* transfers issued on the SPI bus (see Emit)
    calls,            \* driver calls observed (see Emit)
    gpio,             \* levels written to the reset and backlight pins (see SetPin)
    todo,             \* statements the running driver routine has still to execute
    running,          \* the driver routine being executed (see Enter)
    errors,           \* SPI transactions that returned an error (see TransmitFails)
    halted,           \* the program was aborted by a failed assertion
    pc,               \* application: per task, the source line it executes next
    sem,              \* semDecimas, semParciales: "null", "free" or the holding task
    decimas,          \* the running time counter (uint32_t)
    botonesEstado,    \* arrancar, reset, congelar
    xButtonEventGroup,\* the event bits that are set
    counting,         \* decimasTask: the branch chosen, increments made so far
    display,          \* displayTask: its statics and locals, what it has drawn
    toggle,           \* toggleTask: bits, PB1State, PB2State, PB3State
    led,              \* LedStatusTask: ledVerde and the levels of the LED pins
    button,           \* ButtonEvents_Task: prev and cur levels
    env               \* levels of the button pins, presses made so far

drvvars == <<lcd_orientation, mac, char_pixel, wire, calls, gpio, todo, running, errors, halted>>
appvars ==
    <<pc, sem, decimas, botonesEstado, xButtonEventGroup, counting, display, toggle, led, button,
      env>>
vars == <<drvvars, appvars>>

(***************************************************************************)
(* Program constants                                                       *)
(***************************************************************************)
MAX_VALUE_SIZE == 256
MSK_BIT16 == 32768
SEND_PIXELS == 0
COLUMN_ADDR_SET == 42
PAGE_ADDR_SET == 43
MEM_WRITE == 44
MEM_ACC_CTRL == 54
SLEEP_OUT == 17
GAMMA_SET == 38
DISPLAY_ON == 41
PIXEL_FORMAT_SET == 58
FRAME_CTRL == 177
DISP_FUN_CTRL == 182
PWR_CTRL1 == 192
PWR_CTRL2 == 193
VCOM_CTRL1 == 197
VCOM_CTRL2 == 199
PWR_CTRL_A == 203
PWR_CTRL_B == 207
POS_GAMMA == 224
NEG_GAMMA == 225
DRIV_TIM_CTRL_A == 232
DRIV_TIM_CTRL_B == 234
PWR_ON_CTRL == 237
EN_3_GAMMA == 242
PUMP_RATIO_CTRL == 247
LEFT == -1
RIGHT == 1
DOWN == 1
UP == -1
\* panel size in its native (portrait) position: the end column and end page
\* of the initial configuration are 0x00EF and 0x013F
ILI9341_WIDTH == 240
ILI9341_HEIGHT == 320
DIGITO_APAGADO == 6144

Orientations ==
    {"ILI9341_Portrait_1", "ILI9341_Portrait_2", "ILI9341_Landscape_1", "ILI9341_Landscape_2"}

(***************************************************************************)
(* C integer types                                                         *)
(***************************************************************************)
U8(v) == v % 256
U16(v) == v % 65536
I16(v) == IF v % 65536 >= 32768 THEN (v % 65536) - 65536 ELSE v % 65536
\* int32_t and uint32_t quantities (bytes_count, databytes) are plain integers:
\* every value they take in the model is within 0 .. 2^31 - 1
\* C division truncates toward zero
CDiv(a, b) == IF a >= 0 THEN a \div b ELSE -((-a) \div b)

HighByte(x) == U8(x \div 256)
LowByte(x) == x % 256

(***************************************************************************)
(* Transport: lcd_cmd, lcd_data, WriteLCD                                  *)
(***************************************************************************)
\* one SPI transaction: dc is the level of the data/command line
lcd_cmd(cmd) == << [dc |-> 0, bytes |-> <<cmd>>] >>

\* the bytes sent are data[0 .. len-1]; a read past the end of the array has no
\* defined value and is shown as -1, which is no byte
lcd_data(data, len) ==
    IF len = 0 THEN << >>
    ELSE << [dc |-> 1, bytes |-> [n \in 1..len |-> IF n <= Len(data) THEN data[n] ELSE -1]] >>

lcd_cmd_t(cmd, databytes, data) == [cmd |-> cmd, databytes |-> databytes, data |-> data]

\* WriteLCD without the test of line 317
WriteLCDAlwaysCommand(rec) ==
    lcd_cmd(rec.cmd)
    \o (IF rec.databytes # 0 THEN lcd_data(rec.data, rec.databytes) ELSE << >>)

WriteLCD(rec) ==
    (IF rec.cmd # 0 THEN lcd_cmd(rec.cmd) ELSE << >>)
    \o (IF rec.databytes # 0 THEN lcd_data(rec.data, rec.databytes) ELSE << >>)

(***************************************************************************)
(* SetCursorPosition                                                       *)
(***************************************************************************)
SetCursorPositionNoSwap(x0, y0, x1, y1) ==
    WriteLCD(lcd_cmd_t(COLUMN_ADDR_SET, 4, <<HighByte(x0), LowByte(x0), HighByte(x1), LowByte(x1)>>))
    \o WriteLCD(lcd_cmd_t(PAGE_ADDR_SET, 4, <<HighByte(y0), LowByte(y0), HighByte(y1), LowByte(y1)>>))

SetCursorPosition(x0, y0, x1, y1) ==
    LET cx0 == IF x0 > x1 THEN x1 ELSE x0
        cx1 == IF x0 > x1 THEN x0 ELSE x1
        cy0 == IF y0 > y1 THEN y1 ELSE y0
        cy1 == IF y0 > y1 THEN y0 ELSE y1
        columns == <<HighByte(cx0), LowByte(cx0), HighByte(cx1), LowByte(cx1)>>
        rows == <<HighByte(cy0), LowByte(cy0), HighByte(cy1), LowByte(cy1)>>
    IN  WriteLCD(lcd_cmd_t(COLUMN_ADDR_SET, 4, columns))
        \o WriteLCD(lcd_cmd_t(PAGE_ADDR_SET, 4, rows))

(***************************************************************************)
(* Fill                                                                    *)
(***************************************************************************)
\* the transfer buffer after "for (i = 0; i < MAX_VALUE_SIZE; i += 2)"
FillBufferLowFirst(color) ==
    [n \in 1..MAX_VALUE_SIZE |-> IF n % 2 = 1 THEN LowByte(color) ELSE HighByte(color)]

FillBuffer(color) ==
    [n \in 1..MAX_VALUE_SIZE |-> IF n % 2 = 1 THEN HighByte(color) ELSE LowByte(color)]

\* "while (bytes_count - MAX_VALUE_SIZE > 0)" and the final WriteLCD
RECURSIVE FillStreamFullLast(_, _)
FillStreamFullLast(bytes_count, pixel) ==
    IF bytes_count - MAX_VALUE_SIZE > 0
    THEN WriteLCD(lcd_cmd_t(SEND_PIXELS, MAX_VALUE_SIZE, pixel))
         \o FillStreamFullLast(bytes_count - MAX_VALUE_SIZE, pixel)
    ELSE WriteLCD(lcd_cmd_t(SEND_PIXELS, MAX_VALUE_SIZE, pixel))

RECURSIVE FillStreamHalf(_, _)
FillStreamHalf(bytes_count, pixel) ==
    IF bytes_count - MAX_VALUE_SIZE > 0
    THEN WriteLCD(lcd_cmd_t(SEND_PIXELS, MAX_VALUE_SIZE \div 2, pixel))
         \o FillStreamHalf(bytes_count - MAX_VALUE_SIZE \div 2, pixel)
    ELSE WriteLCD(lcd_cmd_t(SEND_PIXELS, bytes_count, pixel))

RECURSIVE FillStream(_, _)
FillStream(bytes_count, pixel) ==
    IF bytes_count - MAX_VALUE_SIZE > 0
    THEN WriteLCD(lcd_cmd_t(SEND_PIXELS, MAX_VALUE_SIZE, pixel))
         \o FillStream(bytes_count - MAX_VALUE_SIZE, pixel)
    ELSE WriteLCD(lcd_cmd_t(SEND_PIXELS, bytes_count, pixel))

\* "bytes_count = (x_dist + 1) * (y_dist + 1) * 2"
FillBytes(x0, y0, x1, y1) ==
    LET x_d == I16(x1 - x0)
        y_d == I16(y1 - y0)
        x_dist == IF x0 > x1 THEN I16(-x_d) ELSE x_d
        y_dist == IF y0 > y1 THEN I16(-y_d) ELSE y_d
    IN  (x_dist + 1) * (y_dist + 1) * 2

FillWriteFirst(x0, y0, x1, y1, color) ==
    WriteLCD(lcd_cmd_t(MEM_WRITE, 0, << >>))
    \o SetCursorPosition(x0, y0, x1, y1)
    \o FillStream(FillBytes(x0, y0, x1, y1), FillBuffer(color))

Fill(x0, y0, x1, y1, color) ==
    SetCursorPosition(x0, y0, x1, y1)
    \o WriteLCD(lcd_cmd_t(MEM_WRITE, 0, << >>))
    \o FillStream(FillBytes(x0, y0, x1, y1), FillBuffer(color))

(***************************************************************************)
(* ILI9341DrawPixel                                                        *)
(***************************************************************************)
ILI9341DrawPixel(x, y, color) ==
    SetCursorPosition(x, y, x, y)
    \o WriteLCD(lcd_cmd_t(MEM_WRITE, 2, <<HighByte(color), LowByte(color)>>))

(***************************************************************************)
(* ILI9341Rotate                                                           *)
(***************************************************************************)
\* the switch with the row/column exchange bit (MV, 0x20) left out
MemAccNoExchange(orientation) ==
    CASE orientation = "ILI9341_Portrait_1" -> 72
      [] orientation = "ILI9341_Portrait_2" -> 136
      [] orientation = "ILI9341_Landscape_1" -> 8
      [] orientation = "ILI9341_Landscape_2" -> 200

\* mem_acc[0] chosen by the switch
MemAcc(orientation) ==
    CASE orientation = "ILI9341_Portrait_1" -> 72
      [] orientation = "ILI9341_Portrait_2" -> 136
      [] orientation = "ILI9341_Landscape_1" -> 40
      [] orientation = "ILI9341_Landscape_2" -> 232

\* lcd_orientation after the switch; cur is the structure before the call
RotatedSwapCurrent(orientation, cur) ==
    IF orientation \in {"ILI9341_Portrait_1", "ILI9341_Portrait_2"}
    THEN [cur EXCEPT !.width = ILI9341_WIDTH, !.height = ILI9341_HEIGHT, !.orientation = orientation]
    ELSE [cur EXCEPT !.width = cur.height, !.height = cur.width, !.orientation = orientation]

Rotated(orientation, cur) ==
    CASE orientation = "ILI9341_Portrait_1" ->
            [cur EXCEPT !.width = ILI9341_WIDTH, !.height = ILI9341_HEIGHT,
                        !.orientation = "ILI9341_Portrait_1"]
      [] orientation = "ILI9341_Portrait_2" ->
            [cur EXCEPT !.width = ILI9341_WIDTH, !.height = ILI9341_HEIGHT,
                        !.orientation = "ILI9341_Portrait_2"]
      [] orientation = "ILI9341_Landscape_1" ->
            [cur EXCEPT !.width = ILI9341_HEIGHT, !.height = ILI9341_WIDTH,
                        !.orientation = "ILI9341_Landscape_1"]
      [] orientation = "ILI9341_Landscape_2" ->
            [cur EXCEPT !.width = ILI9341_HEIGHT, !.height = ILI9341_WIDTH,
                        !.orientation = "ILI9341_Landscape_2"]

ILI9341Rotate(orientation) ==
    WriteLCD(lcd_cmd_t(MEM_ACC_CTRL, 1, <<MemAcc(orientation)>>))

(***************************************************************************)
(* ILI9341DrawLine                                                         *)
(***************************************************************************)
\* the "while (1)" loop of the diagonal case; x0, y0 is the moving start point
\* the loop left only when the rows agree
LineDoneAtRow(x0, y0, x1, y1) == y0 = y1

LineDone(x0, y0, x1, y1) == x0 = x1 \/ y0 = y1

RECURSIVE LineLoop(_, _, _, _, _, _, _, _, _, _)
LineLoop(x0, y0, x1, y1, x_dist, y_dist, x_grow, y_grow, error, color) ==
    ILI9341DrawPixel(x0, y0, color)
    \o (IF LineDone(x0, y0, x1, y1) THEN << >>
        ELSE LET error_2 == error
                 growx == error_2 > -x_dist
                 growy == error_2 < y_dist
                 e1 == IF growx THEN I16(error - y_dist) ELSE error
                 nx == IF growx THEN U16(x0 + x_grow) ELSE x0
                 e2 == IF growy THEN I16(e1 + x_dist) ELSE e1
                 ny == IF growy THEN U16(y0 + y_grow) ELSE y0
             IN  LineLoop(nx, ny, x1, y1, x_dist, y_dist, x_grow, y_grow, e2, color))

\* "Check for overflow": a coordinate beyond the panel is pulled to the edge
ClampToDim(v, dim) == IF v >= dim THEN U16(dim) ELSE v

Clamp(v, dim) == IF v >= dim THEN U16(dim - 1) ELSE v

ILI9341DrawLineNoFill(ax0, ay0, ax1, ay1, color, orient) ==
    LET x0 == Clamp(ax0, orient.width)
        x1 == Clamp(ax1, orient.width)
        y0 == Clamp(ay0, orient.height)
        y1 == Clamp(ay1, orient.height)
        x_dist == IF x0 > x1 THEN x0 - x1 ELSE x1 - x0
        y_dist == IF y0 > y1 THEN y0 - y1 ELSE y1 - y0
    IN  LineLoop(x0, y0, x1, y1, x_dist, y_dist, IF x0 > x1 THEN LEFT ELSE RIGHT,
                 IF y0 > y1 THEN UP ELSE DOWN,
                 IF x_dist > y_dist THEN x_dist \div 2 ELSE y_dist \div 2, color)

ILI9341DrawLine(ax0, ay0, ax1, ay1, color, orient) ==
    LET x0 == Clamp(ax0, orient.width)
        x1 == Clamp(ax1, orient.width)
        y0 == Clamp(ay0, orient.height)
        y1 == Clamp(ay1, orient.height)
        x_d == I16(x1 - x0)
        y_d == I16(y1 - y0)
        x_dist == IF x0 > x1 THEN I16(-x_d) ELSE x_d
        x_grow == IF x0 > x1 THEN LEFT ELSE RIGHT
        y_dist == IF y0 > y1 THEN I16(-y_d) ELSE y_d
        y_grow == IF y0 > y1 THEN UP ELSE DOWN
        error == IF x_dist > y_dist THEN I16(CDiv(x_dist, 2)) ELSE I16(CDiv(y_dist, 2))
    IN  IF x_dist = 0 \/ y_dist = 0
        THEN Fill(x0, y0, x1, y1, color)
        ELSE LineLoop(x0, y0, x1, y1, x_dist, y_dist, x_grow, y_grow, error, color)

(***************************************************************************)
(* ILI9341DrawCircle                                                       *)
(***************************************************************************)
\* the eight ILI9341DrawPixel calls of one loop iteration
OctantPixelsSeven(x0, y0, x, y, color) ==
    ILI9341DrawPixel(U16(x0 + x), U16(y0 + y), color)
    \o ILI9341DrawPixel(U16(x0 - x), U16(y0 + y), color)
    \o ILI9341DrawPixel(U16(x0 + x), U16(y0 - y), color)
    \o ILI9341DrawPixel(U16(x0 - x), U16(y0 - y), color)
    \o ILI9341DrawPixel(U16(x0 + y), U16(y0 + x), color)
    \o ILI9341DrawPixel(U16(x0 - y), U16(y0 + x), color)
    \o ILI9341DrawPixel(U16(x0 + y), U16(y0 - x), color)

OctantPixels(x0, y0, x, y, color) ==
    ILI9341DrawPixel(U16(x0 + x), U16(y0 + y), color)
    \o ILI9341DrawPixel(U16(x0 - x), U16(y0 + y), color)
    \o ILI9341DrawPixel(U16(x0 + x), U16(y0 - y), color)
    \o ILI9341DrawPixel(U16(x0 - x), U16(y0 - y), color)
    \o ILI9341DrawPixel(U16(x0 + y), U16(y0 + x), color)
    \o ILI9341DrawPixel(U16(x0 - y), U16(y0 + x), color)
    \o ILI9341DrawPixel(U16(x0 + y), U16(y0 - x), color)
    \o ILI9341DrawPixel(U16(x0 - y), U16(y0 - x), color)

\* "while (x < y)"
RECURSIVE CircleLoop(_, _, _, _, _, _, _, _)
CircleLoop(x0, y0, f, ddF_x, ddF_y, x, y, color) ==
    IF ~(x < y) THEN << >>
    ELSE LET y2 == IF f >= 0 THEN I16(y - 1) ELSE y
             ddF_y2 == IF f >= 0 THEN I16(ddF_y + 2) ELSE ddF_y
             f1 == IF f >= 0 THEN I16(f + ddF_y2) ELSE f
             x2 == I16(x + 1)
             ddF_x2 == I16(ddF_x + 2)
             f2 == I16(f1 + ddF_x2)
         IN  OctantPixels(x0, y0, x2, y2, color)
             \o CircleLoop(x0, y0, f2, ddF_x2, ddF_y2, x2, y2, color)

ILI9341DrawCircle(x0, y0, r, color) ==
    ILI9341DrawPixel(U16(x0), U16(y0 + r), color)
    \o ILI9341DrawPixel(U16(x0), U16(y0 - r), color)
    \o ILI9341DrawPixel(U16(x0 + r), U16(y0), color)
    \o ILI9341DrawPixel(U16(x0 - r), U16(y0), color)
    \o CircleLoop(x0, y0, I16(1 - r), 1, I16(-2 * r), 0, r, color)

(***************************************************************************)
(* ILI9341DrawChar                                                         *)
(***************************************************************************)
\* A font is a record [FontWidth, FontHeight]; its table of 16-bit row masks
\* is a resource outside the driver, represented by a fixed bit pattern.
\* An index below 0 (a character below ' ') reads memory before the table:
\* what is found there is any value, given with the font as font.stray.
FontData(font, index) ==
    IF index < 0 THEN font.stray ELSE ((index + 1) * 40503) % 65536

\* the mask taken from the lowest bit upward
RowBitFromLowest(char_row, j) == (char_row \div (2 ^ j)) % 2 = 1

\* "char_row & (MSK_BIT16 >> j)"
RowBit(char_row, j) == (char_row \div (MSK_BIT16 \div (2 ^ j))) % 2 = 1

\* byte index of pixel (i, j) in the transfer buffer after k flushes
PixelIndex(i, j, k, font) == 2 * j + i * font.FontWidth * 2 - k * MAX_VALUE_SIZE

\* the buffer sent one pixel before it is full
MustFlushEarly(i, j, k, font) == PixelIndex(i, j, k, font) + 3 > MAX_VALUE_SIZE

\* "If exceed buffer size, send buffer"
MustFlush(i, j, k, font) == PixelIndex(i, j, k, font) + 1 > MAX_VALUE_SIZE

\* The body of the inner loop for pixel (i, j).  st is [k, bytes_count, pixel,
\* tr, since, log]: the loop's variables, the transfers issued so far and the
\* record of the accesses to the buffer: since holds the index of the first of
\* the two bytes stored for each pixel since the buffer was last handed to
\* WriteLCD, log holds what since was each time the buffer was handed over.
CharFlushKeepCount(st) ==
    [k |-> st.k + 1, bytes_count |-> st.bytes_count, pixel |-> st.pixel,
     tr |-> st.tr \o WriteLCD(lcd_cmd_t(SEND_PIXELS, MAX_VALUE_SIZE, st.pixel)),
     since |-> << >>, log |-> Append(st.log, st.since)]

CharFlush(st) ==
    [k |-> st.k + 1, bytes_count |-> st.bytes_count - MAX_VALUE_SIZE, pixel |-> st.pixel,
     tr |-> st.tr \o WriteLCD(lcd_cmd_t(SEND_PIXELS, MAX_VALUE_SIZE, st.pixel)),
     since |-> << >>, log |-> Append(st.log, st.since)]

CharPixel(i, j, st, data, font, foreground, background) ==
    LET char_row == FontData(font, (data - 32) * font.FontHeight + i)
        s1 == IF MustFlush(i, j, st.k, font) THEN CharFlush(st) ELSE st
        p == PixelIndex(i, j, s1.k, font)
        c == IF RowBit(char_row, j) THEN foreground ELSE background
    IN  [s1 EXCEPT !.pixel = [s1.pixel EXCEPT ![p + 1] = HighByte(c), ![p + 2] = LowByte(c)],
                   !.since = Append(s1.since, p)]

\* "for (j = 0; j < font->FontWidth; j++)"
RECURSIVE CharColumns(_, _, _, _, _, _, _)
CharColumns(i, j, st, data, font, foreground, background) ==
    IF st.k < 0 \/ j >= font.FontWidth THEN st
    ELSE CharColumns(i, j + 1, CharPixel(i, j, st, data, font, foreground, background),
                     data, font, foreground, background)

\* "for (i = 0; i < font->FontHeight; i++)"
RECURSIVE CharLoop(_, _, _, _, _, _)
CharLoop(i, st, data, font, foreground, background) ==
    IF st.k < 0 \/ i >= font.FontHeight THEN st
    ELSE CharLoop(i + 1, CharColumns(i, 0, st, data, font, foreground, background),
                  data, font, foreground, background)

\* yields [tr, pixel, log]: the transfers issued, the static buffer left behind
\* and the record of the accesses to it
ILI9341DrawChar(x, y, data, font, foreground, background, orient, pixel0) ==
    LET wrap == (x + font.FontWidth) > orient.width
        lcd_x == IF wrap THEN 0 ELSE x
        lcd_y == IF wrap THEN U16(y + font.FontHeight) ELSE y
        head == SetCursorPosition(lcd_x, lcd_y, U16(lcd_x + font.FontWidth - 1),
                                  U16(lcd_y + font.FontHeight - 1))
                \o WriteLCD(lcd_cmd_t(MEM_WRITE, 0, << >>))
        st == CharLoop(0, [k |-> 0, bytes_count |-> font.FontHeight * font.FontWidth * 2,
                           pixel |-> pixel0, tr |-> head,
                           since |-> << >>, log |-> << >>],
                       data, font, foreground, background)
    IN  [tr |-> st.tr \o WriteLCD(lcd_cmd_t(SEND_PIXELS, st.bytes_count, st.pixel)),
         pixel |-> st.pixel, log |-> Append(st.log, st.since)]

(***************************************************************************)
(* ILI9341DrawString                                                       *)
(***************************************************************************)
\* str is the memory the pointer argument points to: the characters, the
\* terminating 0 and the bytes that follow it; "*str" at position i
StrByte(str, i) == IF i <= Len(str) THEN str[i] ELSE 0
\* the position of the terminating 0 and the characters before it
NulAt(str) == CHOOSE i \in 1..Len(str) : str[i] = 0 /\ \A j \in 1..(i - 1) : str[j] # 0
Text(str) == SubSeq(str, 1, NulAt(str) - 1)
\* "printable": the characters the font table has rows for, ' ' and above
IsPrintable(c) == c >= 32

\* The "while (*str != '\0')" loop with str at position i.  st is [tr, pixel,
\* drawn, read]: the transfers issued, the buffer of ILI9341DrawChar, the
\* arguments x, y, data of its calls and the last position read.
\* "lcd_y += font->FontHeight + 1"
NewlineYNoGap(lcd_y, font) == U16(lcd_y + font.FontHeight)

NewlineY(lcd_y, font) == U16(lcd_y + font.FontHeight + 1)

RECURSIVE StringLoop(_, _, _, _, _, _, _, _, _, _)
StringLoop(i, lcd_x, lcd_y, st, x, str, font, foreground, background, orient) ==
    IF StrByte(str, i) = 0 THEN [st EXCEPT !.read = IF i > @ THEN i ELSE @]
    ELSE LET newline == StrByte(str, i) = 10
             toleft == newline /\ StrByte(str, i + 1) = 13
             y1 == IF newline THEN NewlineY(lcd_y, font) ELSE lcd_y
             x1 == IF toleft THEN 0 ELSE IF newline THEN x ELSE lcd_x
             i1 == IF toleft THEN i + 2
                   ELSE IF newline \/ StrByte(str, i) = 13 THEN i + 1 ELSE i
             ch == ILI9341DrawChar(x1, y1, StrByte(str, i1), font, foreground, background,
                                   orient, st.pixel)
         IN  StringLoop(i1 + 1, U16(x1 + font.FontWidth), y1,
                        [tr |-> st.tr \o ch.tr, pixel |-> ch.pixel,
                         drawn |-> Append(st.drawn, <<x1, y1, StrByte(str, i1)>>),
                         read |-> IF i1 > st.read THEN i1 ELSE st.read],
                        x, str, font, foreground, background, orient)

\* yields [tr, pixel, drawn, read]
ILI9341DrawString(x, y, str, font, foreground, background, orient, pixel0) ==
    StringLoop(1, x, y, [tr |-> << >>, pixel |-> pixel0, drawn |-> << >>, read |-> 0],
               x, str, font, foreground, background, orient)

(***************************************************************************)
(* ILI9341DrawPicture                                                      *)
(***************************************************************************)
\* the picture bytes are the caller's; pic[n] is represented by a fixed pattern
PicByte(n) == (n * 37 + 11) % 256

\* pixel[] after "pixel[i] = pic[j * MAX_VALUE_SIZE + i]" for i < count
PicChunk(j, count) == [i \in 1..count |-> PicByte(j * MAX_VALUE_SIZE + i - 1)]

RECURSIVE PicStream(_, _)
PicStream(bytes_count, j) ==
    IF bytes_count - MAX_VALUE_SIZE > 0
    THEN WriteLCD(lcd_cmd_t(SEND_PIXELS, MAX_VALUE_SIZE, PicChunk(j, MAX_VALUE_SIZE)))
         \o PicStream(bytes_count - MAX_VALUE_SIZE, j + 1)
    ELSE WriteLCD(lcd_cmd_t(SEND_PIXELS, bytes_count, PicChunk(j, bytes_count)))

ILI9341DrawPicture(x, y, width, height) ==
    SetCursorPosition(x, y, U16(x + width - 1), U16(y + height - 1))
    \o WriteLCD(lcd_cmd_t(MEM_WRITE, 0, << >>))
    \o PicStream(width * height * 2, 0)

(***************************************************************************)
(* ILI9341GetStringSize, ILI9341DrawRectangle, ILI9341DrawFilledRectangle, *)
(* ILI9341DrawFilledCircle                                                 *)
(***************************************************************************)
\* "while (*str != '\0') { w += font->FontWidth; str++; }"
RECURSIVE StringWidth(_, _, _, _)
StringWidth(str, i, font, w) ==
    IF StrByte(str, i) = 0 THEN w ELSE StringWidth(str, i + 1, font, U16(w + font.FontWidth))

\* the values stored through the pointers width and height; nothing is sent
ILI9341GetStringSize(str, font) ==
    [width |-> StringWidth(str, 1, font, 0), height |-> font.FontHeight]

ILI9341DrawRectangle(x0, y0, x1, y1, color, orient) ==
    ILI9341DrawLine(x0, y0, x1, y0, color, orient)
    \o ILI9341DrawLine(x1, y0, x1, y1, color, orient)
    \o ILI9341DrawLine(x0, y1, x1, y1, color, orient)
    \o ILI9341DrawLine(x0, y0, x0, y1, color, orient)

ILI9341DrawFilledRectangle(x0, y0, x1, y1, color) == Fill(x0, y0, x1, y1, color)

\* the four lines of one iteration with only the two rows y0 + y and y0 - y
FilledCircleLinesOuter(x0, y0, x, y, color, orient) ==
    ILI9341DrawLine(U16(x0 - x), U16(y0 + y), U16(x0 + x), U16(y0 + y), color, orient)
    \o ILI9341DrawLine(U16(x0 + x), U16(y0 - y), U16(x0 - x), U16(y0 - y), color, orient)

\* the four ILI9341DrawLine calls of one iteration of the filled circle
FilledCircleLines(x0, y0, x, y, color, orient) ==
    ILI9341DrawLine(U16(x0 - x), U16(y0 + y), U16(x0 + x), U16(y0 + y), color, orient)
    \o ILI9341DrawLine(U16(x0 + x), U16(y0 - y), U16(x0 - x), U16(y0 - y), color, orient)
    \o ILI9341DrawLine(U16(x0 + y), U16(y0 + x), U16(x0 - y), U16(y0 + x), color, orient)
    \o ILI9341DrawLine(U16(x0 + y), U16(y0 - x), U16(x0 - y), U16(y0 - x), color, orient)

\* "while (x < y)" of the filled circle
RECURSIVE FilledCircleLoop(_, _, _, _, _, _, _, _, _)
FilledCircleLoop(x0, y0, f, ddF_x, ddF_y, x, y, color, orient) ==
    IF ~(x < y) THEN << >>
    ELSE LET y2 == IF f >= 0 THEN I16(y - 1) ELSE y
             ddF_y2 == IF f >= 0 THEN I16(ddF_y + 2) ELSE ddF_y
             f1 == IF f >= 0 THEN I16(f + ddF_y2) ELSE f
             x2 == I16(x + 1)
             ddF_x2 == I16(ddF_x + 2)
             f2 == I16(f1 + ddF_x2)
         IN  FilledCircleLines(x0, y0, x2, y2, color, orient)
             \o FilledCircleLoop(x0, y0, f2, ddF_x2, ddF_y2, x2, y2, color, orient)

ILI9341DrawFilledCircle(x0, y0, r, color, orient) ==
    ILI9341DrawPixel(U16(x0), U16(y0 + r), color)
    \o ILI9341DrawPixel(U16(x0), U16(y0 - r), color)
    \o ILI9341DrawPixel(U16(x0 + r), U16(y0), color)
    \o ILI9341DrawPixel(U16(x0 - r), U16(y0), color)
    \o ILI9341DrawLine(U16(x0 - r), U16(y0), U16(x0 + r), U16(y0), color, orient)
    \o FilledCircleLoop(x0, y0, I16(1 - r), 1, I16(-2 * r), 0, r, color, orient)

(***************************************************************************)
(* ILI9341Init                                                             *)
(***************************************************************************)
\* "Initial LCD configuration": command, number of parameters, parameters
lcd_init ==
    << lcd_cmd_t(PWR_CTRL_A, 5, <<57, 44, 0, 52, 2>>),
       lcd_cmd_t(PWR_CTRL_B, 3, <<0, 193, 48>>),
       lcd_cmd_t(DRIV_TIM_CTRL_A, 3, <<133, 0, 120>>),
       lcd_cmd_t(DRIV_TIM_CTRL_B, 2, <<0, 0>>),
       lcd_cmd_t(PWR_ON_CTRL, 4, <<100, 3, 18, 129>>),
       lcd_cmd_t(PUMP_RATIO_CTRL, 1, <<32>>),
       lcd_cmd_t(PWR_CTRL1, 1, <<35>>),
       lcd_cmd_t(PWR_CTRL2, 1, <<16>>),
       lcd_cmd_t(VCOM_CTRL1, 2, <<62, 40>>),
       lcd_cmd_t(VCOM_CTRL2, 1, <<134>>),
       lcd_cmd_t(MEM_ACC_CTRL, 1, <<72>>),
       lcd_cmd_t(PIXEL_FORMAT_SET, 1, <<85>>),
       lcd_cmd_t(FRAME_CTRL, 2, <<0, 24>>),
       lcd_cmd_t(DISP_FUN_CTRL, 3, <<10, 130, 39>>),
       lcd_cmd_t(EN_3_GAMMA, 1, <<2>>),
       lcd_cmd_t(COLUMN_ADDR_SET, 4, <<0, 0, 0, 239>>),
       lcd_cmd_t(PAGE_ADDR_SET, 4, <<0, 0, 1, 63>>),
       lcd_cmd_t(GAMMA_SET, 1, <<1>>),
       lcd_cmd_t(POS_GAMMA, 15, <<15, 49, 43, 12, 14, 8, 78, 241, 55, 7, 16, 3, 14, 9, 0>>),
       lcd_cmd_t(NEG_GAMMA, 15, <<0, 14, 20, 3, 17, 7, 49, 193, 72, 8, 15, 12, 49, 54, 15>>) >>

lcd_sleep_out == lcd_cmd_t(SLEEP_OUT, 0, << >>)
lcd_on == lcd_cmd_t(DISPLAY_ON, 0, << >>)

\* A statement of a routine that is executed step by step: an SPI transaction,
\* a pin write, a task delay, a peripheral set-up call, or the pixel loop of
\* Fill with bytes_count bytes still to send.
SpiOp(t) == [kind |-> "spi", arg |-> t]
GpioOp(pin, level) == [kind |-> "gpio", arg |-> [pin |-> pin, level |-> level]]
DelayOp(ms) == [kind |-> "delay", arg |-> ms]
SetupOp(routine) == [kind |-> "setup", arg |-> routine]
StreamOp(bytes_count, pixel) ==
    [kind |-> "stream", arg |-> [bytes_count |-> bytes_count, pixel |-> pixel]]

SpiOps(tr) == [i \in 1..Len(tr) |-> SpiOp(tr[i])]

\* "for (i = 0; i < sizeof(lcd_init) / sizeof(lcd_cmd_t); i++) WriteLCD(&lcd_init[i])"
RECURSIVE WriteTable(_, _)
WriteTable(table, i) ==
    IF i > Len(table) THEN << >> ELSE WriteLCD(table[i]) \o WriteTable(table, i + 1)

\* Fill with the loop "while (bytes_count - MAX_VALUE_SIZE > 0)" and the final
\* WriteLCD left to be run one transfer at a time (see Unfolded)
FillOps(x0, y0, x1, y1, color) ==
    SpiOps(SetCursorPosition(x0, y0, x1, y1) \o WriteLCD(lcd_cmd_t(MEM_WRITE, 0, << >>)))
    \o <<StreamOp(FillBytes(x0, y0, x1, y1), FillBuffer(color))>>

\* the next WriteLCD of the pixel loop and what is left of the loop after it
StreamWrite(s) ==
    IF s.bytes_count - MAX_VALUE_SIZE > 0
    THEN WriteLCD(lcd_cmd_t(SEND_PIXELS, MAX_VALUE_SIZE, s.pixel))
    ELSE WriteLCD(lcd_cmd_t(SEND_PIXELS, s.bytes_count, s.pixel))

StreamRest(s) ==
    IF s.bytes_count - MAX_VALUE_SIZE > 0
    THEN <<StreamOp(s.bytes_count - MAX_VALUE_SIZE, s.pixel)>>
    ELSE << >>

\* the statements ops with the pixel loop at their head run up to its next
\* transfer
Unfolded(ops) ==
    IF ops = << >> THEN ops
    ELSE IF Head(ops).kind = "stream"
         THEN SpiOps(StreamWrite(Head(ops).arg)) \o StreamRest(Head(ops).arg) \o Tail(ops)
         ELSE ops

\* the fill preceded by the memory-access-control command of the orientation
ILI9341FillOpsWithAccess(color, orient) ==
    SpiOps(ILI9341Rotate(orient.orientation))
    \o FillOps(0, 0, orient.width, orient.height, color)

ILI9341FillOps(color, orient) == FillOps(0, 0, orient.width, orient.height, color)

\* ILI9341_BLACK
ILI9341_BLACK == 0

ILI9341InitBacklightFirst(orient) ==
    << SetupOp("spi_config"), SetupOp("gpio_config"),
       GpioOp("ILI9341_PIN_NUM_RST", "0"), DelayOp(10),
       GpioOp("ILI9341_PIN_NUM_RST", "1"), DelayOp(10) >>
    \o SpiOps(WriteTable(lcd_init, 1))
    \o SpiOps(WriteLCD(lcd_sleep_out)) \o <<DelayOp(10)>>
    \o <<GpioOp("ILI9341_PIN_NUM_BCKL", "ILI9341_BK_LIGHT_ON_LEVEL")>>
    \o SpiOps(WriteLCD(lcd_on)) \o <<DelayOp(10)>>
    \o ILI9341FillOps(ILI9341_BLACK, orient)

ILI9341Init(orient) ==
    << SetupOp("spi_config"), SetupOp("gpio_config"),
       GpioOp("ILI9341_PIN_NUM_RST", "0"), DelayOp(10),
       GpioOp("ILI9341_PIN_NUM_RST", "1"), DelayOp(10) >>
    \o SpiOps(WriteTable(lcd_init, 1))
    \o SpiOps(WriteLCD(lcd_sleep_out)) \o <<DelayOp(10)>>
    \o SpiOps(WriteLCD(lcd_on)) \o <<DelayOp(10)>>
    \o <<GpioOp("ILI9341_PIN_NUM_BCKL", "ILI9341_BK_LIGHT_ON_LEVEL")>>
    \o ILI9341FillOps(ILI9341_BLACK, orient)

(***************************************************************************)
(* Observation of calls                                                    *)
(***************************************************************************)
\* no driver routine sends the memory-access-control command except
\* ILI9341Rotate; the byte the panel holds is the data byte that follows it
LastMac(tr, old) ==
    LET at == {i \in 1..(Len(tr) - 1) :
                  tr[i].dc = 0 /\ tr[i].bytes = <<MEM_ACC_CTRL>> /\ tr[i + 1].dc = 1}
    IN  IF at = {} THEN old
        ELSE tr[(CHOOSE i \in at : \A j \in at : j <= i) + 1].bytes[1]

\* A call of routine op with arguments args that issues the transfers tr,
\* leaves the orientation structure as orient and the transfer buffer of
\* ILI9341DrawChar as cpixel.  With keep = FALSE the observation starts afresh
\* at every call (wire and calls hold the last call only); with keep = TRUE
\* they hold the whole sequence of calls.
Emit(op, args, tr, orient, cpixel, keep) ==
    LET entry == [op |-> op, args |-> args, after |-> orient,
                  mac |-> LastMac(tr, mac), sent |-> Len(tr)]
    IN  /\ lcd_orientation' = orient
        /\ char_pixel' = cpixel
        /\ mac' = LastMac(tr, mac)
        /\ wire' = IF keep THEN wire \o tr ELSE tr
        /\ calls' = IF keep THEN Append(calls, entry) ELSE <<entry>>
        /\ UNCHANGED <<gpio, todo, running, errors, halted, appvars>>

LastCall == calls[Len(calls)]

\* no driver routine is being executed
Idle == [op |-> "none", args |-> << >>, from |-> 0]
Called(op) == IF calls = << >> THEN FALSE ELSE LastCall.op = op

(***************************************************************************)
(* Bounds and input sets                                                   *)
(***************************************************************************)
MaxX == 7           \* rectangles and pictures: columns 0..MaxX
MaxY == 17          \* rectangles and pictures: rows 0..MaxY
MaxLine == 5        \* line endpoints: 0..MaxLine on both axes
MaxCentre == 4      \* circle centres: 0..MaxCentre on both axes
MaxRadius == 4      \* circle radii: 0..MaxRadius
MaxFontHeight == 26 \* glyph heights 1..MaxFontHeight
MaxCalls == 3       \* length of the call sequences of SeqSpec
MaxRotations == 5   \* length of the call sequences of RotSpec
MaxTicks == 2       \* increments of decimas followed in one run
MaxPresses == 2     \* button presses made in one run
\* glyph widths 1..FONT_ROW_BITS: a row of a glyph is one 16-bit mask
FONT_ROW_BITS == 16

\* 0xF800 (red) and 0x1234
Colors == {63488, 4660}
U16Samples == {0, 1, 239, 256, 65535}
Fonts == [FontWidth : 1..FONT_ROW_BITS, FontHeight : 1..MaxFontHeight]
\* 'A' and '~'
Chars == {65, 126}
CharXs == {0, 230}
\* The memory a string argument points to: the characters, the terminating
\* 0 and what follows it in memory (another string, or zeros).
\* "AB", "ABC", "A\nB", "A\n\rB", "A\rB", "AB\nC", "\nA", "",
\* "A\n\nB", "A\r\nB", and "A\n", "A\r", "A\n\r" followed by zeros and by "B"
Strings ==
    {<<65, 66, 0>>, <<65, 66, 67, 0>>, <<65, 10, 66, 0>>, <<65, 10, 13, 66, 0>>,
     <<65, 13, 66, 0>>, <<65, 66, 10, 67, 0>>, <<10, 65, 0>>, <<0>>,
     <<65, 10, 10, 66, 0>>, <<65, 13, 10, 66, 0>>,
     <<65, 10, 0, 0, 0>>, <<65, 10, 0, 66, 0>>,
     <<65, 13, 0, 0, 0>>, <<65, 13, 0, 66, 0>>,
     <<65, 10, 13, 0, 0, 0>>, <<65, 10, 13, 0, 66, 0>>}
\* the fonts of 7 x 10 and 16 x 26 pixels; the memory before their tables
\* holds zeros or ones
StringFonts ==
    [FontWidth : {7}, FontHeight : {10}, stray : {0, 65535}]
        \cup [FontWidth : {16}, FontHeight : {26}, stray : {0}]
\* strings start 10 columns before the right edge of the portrait panel
StringX == ILI9341_WIDTH - 10
\* records for WriteLCD: with and without opcode, with and without payload
WriteCmds == {SEND_PIXELS, COLUMN_ADDR_SET, MEM_WRITE, SLEEP_OUT}
WriteLens == {0, 1, 4}
WriteData == <<18, 52, 0, 239>>
\* line endpoints at and beyond the edges of the panel in both positions
LineEdge == {238, 239, 240, 319, 320, 65535}

(***************************************************************************)
(* The stopwatch application (main.c, button_events.c)                     *)
(*                                                                         *)
(* pc[t] is the source line of the statement task t executes next; a label *)
(* "in_L<n>" means the task is inside the display-driver call made at line *)
(* n.  Statements that touch only variables of the task itself are taken   *)
(* together with the statement before them.  The transfers of the driver   *)
(* calls are the subject of the specifications above and are not repeated  *)
(* here.                                                                   *)
(***************************************************************************)
Tasks ==
    {"app_main", "decimasTask", "displayTask", "toggleTask", "LedStatusTask",
     "ButtonEvents_Task"}

EV_BIT_START_STOP == 1
EV_BIT_RESET == 2
EV_BIT_FUNC_CHANGE == 4

ButtonPins == {"BUTTON_PIN_START_STOP", "BUTTON_PIN_RESET", "BUTTON_PIN_FUNC"}

\* uint32_t values are kept as their two 16-bit halves
U32Zero == [hi |-> 0, lo |-> 0]
U32Max == [hi |-> 65535, lo |-> 65535]
U32Inc(v) ==
    IF v.lo < 65535 THEN [hi |-> v.hi, lo |-> v.lo + 1]
    ELSE IF v.hi < 65535 THEN [hi |-> v.hi + 1, lo |-> 0]
    ELSE U32Zero
\* v / 100 and v % 100 (65536 = 655 * 100 + 36)
U32Div100(v) == v.hi * 655 + (v.hi * 36 + v.lo) \div 100
U32Mod100(v) == (v.hi * 36 + v.lo) % 100

\* "mins = total / 6000; secs = (total / 100) % 60; d = total % 100" and the
\* digits and circle colour drawn from them
TimeDigits(total) ==
    LET mins == U32Div100(total) \div 60
        secs == U32Div100(total) % 60
        d == U32Mod100(total)
    IN  [digits |-> <<mins \div 10, mins % 10, secs \div 10, secs % 10, d \div 10, d % 10>>,
         circleColor |-> IF secs % 2 > 0 THEN "DIGITO_APAGADO" ELSE "DIGITO_ENCENDIDO"]

\* "pmin = (p / 6000) % 100; psec = (p / 100) % 60; pde = p % 100"
PartialText(p) == <<(U32Div100(p) \div 60) % 100, U32Div100(p) % 60, U32Mod100(p)>>

\* the application before app_main runs: the statically initialised data
AppBoot ==
    /\ pc = [t \in Tasks |-> IF t = "app_main" THEN "L252" ELSE "not_created"]
    /\ sem = [semDecimas |-> "null", semParciales |-> "null"]
    /\ decimas = U32Zero
    /\ botonesEstado = [arrancar |-> 0, reset |-> 0, congelar |-> 0]
    /\ xButtonEventGroup = {}
    /\ counting = [update |-> "none", ticks |-> 0]
    /\ display = [total |-> U32Zero, parciales |-> [i \in 0..3 |-> U32Zero], actualizo |-> 0,
                  local_parciales |-> [i \in 0..2 |-> U32Zero],
                  shown |-> << >>, text |-> << >>]
    /\ toggle = [bits |-> {}, PB1State |-> 1, PB2State |-> 1, PB3State |-> 1]
    /\ led = [ledVerde |-> 1, LED_VERDE |-> 0, LED_ROJO |-> 0]
    /\ button = [prev |-> [p \in ButtonPins |-> 1], cur |-> [p \in ButtonPins |-> 1]]
    /\ env = [level |-> [p \in ButtonPins |-> 1], presses |-> 0]

Goto(t, label) == pc' = [pc EXCEPT ![t] = label]
At(t, label) == pc[t] = label

\* xSemaphoreTake(m, portMAX_DELAY) blocks until the mutex is free
Take(t, m) == sem[m] = "free" /\ sem' = [sem EXCEPT ![m] = t]
Give(t, m) == sem' = [sem EXCEPT ![m] = "free"]
Held(t) == {m \in DOMAIN sem : sem[m] = t}

(***************************************************************************)
(* Initial state: the driver after ILI9341Init (default orientation, the   *)
(* memory-access-control byte of the initial configuration, the static     *)
(* transfer buffer zeroed).                                                *)
(***************************************************************************)
Init ==
    /\ lcd_orientation = [width |-> ILI9341_WIDTH, height |-> ILI9341_HEIGHT,
                          orientation |-> "ILI9341_Portrait_1"]
    /\ mac = 72
    /\ char_pixel = [n \in 1..MAX_VALUE_SIZE |-> 0]
    /\ wire = << >>
    /\ calls = << >>
    /\ gpio = << >>
    /\ todo = << >>
    /\ running = Idle
    /\ errors = << >>
    /\ halted = FALSE
    /\ AppBoot

(***************************************************************************)
(* Actions: one per driver routine                                         *)
(***************************************************************************)
CallWriteLCD(rec, keep) ==
    Emit("WriteLCD", <<rec>>, WriteLCD(rec), lcd_orientation, char_pixel, keep)

CallSetCursorPosition(x0, y0, x1, y1, keep) ==
    Emit("SetCursorPosition", <<x0, y0, x1, y1>>, SetCursorPosition(x0, y0, x1, y1),
         lcd_orientation, char_pixel, keep)

CallFill(x0, y0, x1, y1, color, keep) ==
    Emit("Fill", <<x0, y0, x1, y1, color>>, Fill(x0, y0, x1, y1, color),
         lcd_orientation, char_pixel, keep)

CallDrawFilledRectangle(x0, y0, x1, y1, color, keep) ==
    Emit("ILI9341DrawFilledRectangle", <<x0, y0, x1, y1, color>>, Fill(x0, y0, x1, y1, color),
         lcd_orientation, char_pixel, keep)

CallDrawPixel(x, y, color, keep) ==
    Emit("ILI9341DrawPixel", <<x, y, color>>, ILI9341DrawPixel(x, y, color),
         lcd_orientation, char_pixel, keep)

CallRotate(orientation, keep) ==
    Emit("ILI9341Rotate", <<orientation>>, ILI9341Rotate(orientation),
         Rotated(orientation, lcd_orientation), char_pixel, keep)

CallDrawLine(x0, y0, x1, y1, color, keep) ==
    Emit("ILI9341DrawLine", <<x0, y0, x1, y1, color>>,
         ILI9341DrawLine(x0, y0, x1, y1, color, lcd_orientation),
         lcd_orientation, char_pixel, keep)

CallDrawCircle(x0, y0, r, color, keep) ==
    Emit("ILI9341DrawCircle", <<x0, y0, r, color>>, ILI9341DrawCircle(x0, y0, r, color),
         lcd_orientation, char_pixel, keep)

\* res is what ILI9341DrawChar yields; the entry of the call keeps its log
EmitChar(args, res, keep) ==
    LET entry == [op |-> "ILI9341DrawChar", args |-> args, after |-> lcd_orientation,
                  mac |-> LastMac(res.tr, mac), sent |-> Len(res.tr), log |-> res.log]
    IN  /\ char_pixel' = res.pixel
        /\ mac' = LastMac(res.tr, mac)
        /\ wire' = IF keep THEN wire \o res.tr ELSE res.tr
        /\ calls' = IF keep THEN Append(calls, entry) ELSE <<entry>>
        /\ UNCHANGED <<lcd_orientation, gpio, todo, running, errors, halted, appvars>>

CallDrawFilledCircle(x0, y0, r, color, keep) ==
    Emit("ILI9341DrawFilledCircle", <<x0, y0, r, color>>,
         ILI9341DrawFilledCircle(x0, y0, r, color, lcd_orientation),
         lcd_orientation, char_pixel, keep)

CallDrawChar(x, y, data, font, foreground, background, keep) ==
    EmitChar(<<x, y, data, font, foreground, background>>,
             ILI9341DrawChar(x, y, data, font, foreground, background, lcd_orientation,
                             char_pixel),
             keep)

\* res is what ILI9341DrawString yields; the entry of the call keeps the
\* arguments of the calls of ILI9341DrawChar and the last position read
EmitString(args, res, keep) ==
    LET entry == [op |-> "ILI9341DrawString", args |-> args, after |-> lcd_orientation,
                  mac |-> LastMac(res.tr, mac), sent |-> Len(res.tr),
                  drawn |-> res.drawn, read |-> res.read]
    IN  /\ char_pixel' = res.pixel
        /\ mac' = LastMac(res.tr, mac)
        /\ wire' = IF keep THEN wire \o res.tr ELSE res.tr
        /\ calls' = IF keep THEN Append(calls, entry) ELSE <<entry>>
        /\ UNCHANGED <<lcd_orientation, gpio, todo, running, errors, halted, appvars>>

CallDrawString(x, y, str, font, foreground, background, keep) ==
    EmitString(<<x, y, str, font, foreground, background>>,
               ILI9341DrawString(x, y, str, font, foreground, background, lcd_orientation,
                                 char_pixel),
               keep)

CallDrawPicture(x, y, width, height, keep) ==
    Emit("ILI9341DrawPicture", <<x, y, width, height>>, ILI9341DrawPicture(x, y, width, height),
         lcd_orientation, char_pixel, keep)

(***************************************************************************)
(* Spec: the driver is rotated any number of times and then one call, with *)
(* inputs from the full input sets, is observed.                           *)
(***************************************************************************)
Fresh == IF calls = << >> THEN TRUE ELSE LastCall.op = "ILI9341Rotate"

Next ==
    \/ Fresh /\ \E o \in Orientations : CallRotate(o, FALSE)
    \/ Fresh /\ \E cmd \in WriteCmds, n \in WriteLens :
          CallWriteLCD(lcd_cmd_t(cmd, n, WriteData), FALSE)
    \/ Fresh /\ \E x0, y0, x1, y1 \in U16Samples : CallSetCursorPosition(x0, y0, x1, y1, FALSE)
    \/ Fresh /\ \E x0 \in {0, MaxX}, y0 \in {0, MaxY}, x1 \in 0..MaxX, y1 \in 0..MaxY, c \in Colors :
          CallFill(x0, y0, x1, y1, c, FALSE)
    \/ Fresh /\ \E x, y \in U16Samples, c \in Colors : CallDrawPixel(x, y, c, FALSE)
    \/ Fresh /\ \E x0, y0, x1, y1 \in 0..MaxLine : CallDrawLine(x0, y0, x1, y1, DIGITO_APAGADO, FALSE)
    \/ Fresh /\ \E x0, y0, x1, y1 \in LineEdge : CallDrawLine(x0, y0, x1, y1, DIGITO_APAGADO, FALSE)
    \/ Fresh /\ \E x0, y0 \in 0..MaxCentre, r \in 0..MaxRadius :
          CallDrawCircle(x0, y0, r, DIGITO_APAGADO, FALSE)
    \/ Fresh /\ \E x0, y0 \in 0..MaxCentre, r \in 0..MaxRadius :
          CallDrawFilledCircle(x0, y0, r, DIGITO_APAGADO, FALSE)
    \/ Fresh /\ \E x \in CharXs, d \in Chars, font \in Fonts :
          CallDrawChar(x, 0, d, font, 63488, DIGITO_APAGADO, FALSE)
    \/ Fresh /\ \E w \in 0..MaxX, h \in 0..MaxY : CallDrawPicture(0, 0, w, h, FALSE)
    \/ Fresh /\ \E str \in Strings, font \in StringFonts :
          CallDrawString(StringX, 0, str, font, 63488, DIGITO_APAGADO, FALSE)

Spec == Init /\ [][Next]_vars

(***************************************************************************)
(* SeqSpec: sequences of up to MaxCalls drawing calls by one caller, the   *)
(* wire holding everything sent since the start.                           *)
(***************************************************************************)
SeqFont == [FontWidth |-> FONT_ROW_BITS, FontHeight |-> 9]

SeqNext ==
    /\ Len(calls) < MaxCalls
    /\ \/ CallRotate("ILI9341_Landscape_1", TRUE)
       \/ \E p \in {0, MaxX} : CallFill(0, 0, p, p, DIGITO_APAGADO, TRUE)
       \/ CallDrawFilledRectangle(MaxX, MaxY, 0, 0, DIGITO_APAGADO, TRUE)
       \/ CallDrawPixel(1, 0, DIGITO_APAGADO, TRUE)
       \/ CallDrawLine(0, 0, 2, 1, DIGITO_APAGADO, TRUE)
       \/ CallDrawCircle(1, 1, 1, DIGITO_APAGADO, TRUE)
       \/ CallDrawChar(0, 0, 65, SeqFont, 63488, DIGITO_APAGADO, TRUE)
       \/ \E w \in {0, MaxX} : CallDrawPicture(0, 0, w, MaxX, TRUE)

SeqSpec == Init /\ [][SeqNext]_vars

(***************************************************************************)
(* RotSpec: sequences of up to MaxRotations calls of ILI9341Rotate.        *)
(***************************************************************************)
RotNext ==
    /\ Len(calls) < MaxRotations
    /\ \E o \in Orientations : CallRotate(o, TRUE)

RotSpec == Init /\ [][RotNext]_vars

(***************************************************************************)
(* RunSpec: the program from power-on.  ILI9341Init and then up to         *)
(* MaxCalls driver calls are executed one statement at a time; every SPI   *)
(* transaction either completes or returns an error, and an error fails    *)
(* the assertion that follows it.                                          *)
(***************************************************************************)
RunInit ==
    /\ lcd_orientation = [width |-> ILI9341_WIDTH, height |-> ILI9341_HEIGHT,
                          orientation |-> "ILI9341_Portrait_1"]
    /\ mac = 0
    /\ char_pixel = [n \in 1..MAX_VALUE_SIZE |-> 0]
    /\ wire = << >>
    /\ calls = << >>
    /\ gpio = << >>
    /\ todo = << >>
    /\ running = Idle
    /\ errors = << >>
    /\ halted = FALSE
    /\ AppBoot

\* a caller enters routine op, whose statements are ops; orient is the
\* orientation structure as the routine sets it before its first transfer
Enter(op, args, ops, orient) ==
    /\ ~halted
    /\ running = Idle
    /\ running' = [op |-> op, args |-> args, from |-> Len(wire)]
    /\ todo' = Unfolded(ops)
    /\ lcd_orientation' = orient
    /\ UNCHANGED <<mac, char_pixel, wire, calls, gpio, errors, halted, appvars>>

EnterInit ==
    /\ calls = << >>
    /\ Enter("ILI9341Init", << >>, ILI9341Init(lcd_orientation), lcd_orientation)

EnterRotate(orientation) ==
    /\ calls # << >>
    /\ Enter("ILI9341Rotate", <<orientation>>, SpiOps(ILI9341Rotate(orientation)),
             Rotated(orientation, lcd_orientation))

EnterDrawPixel(x, y, color) ==
    /\ calls # << >>
    /\ Enter("ILI9341DrawPixel", <<x, y, color>>, SpiOps(ILI9341DrawPixel(x, y, color)),
             lcd_orientation)

EnterFill(x0, y0, x1, y1, color) ==
    /\ calls # << >>
    /\ Enter("Fill", <<x0, y0, x1, y1, color>>, FillOps(x0, y0, x1, y1, color),
             lcd_orientation)

\* the step of the running routine is the statement at the head of todo
AtOp(kinds) ==
    /\ ~halted
    /\ todo # << >>
    /\ Head(todo).kind \in kinds

\* lcd_cmd / lcd_data: spi_device_polling_transmit returns ESP_OK
Transmit ==
    /\ AtOp({"spi"})
    /\ wire' = Append(wire, Head(todo).arg)
    /\ mac' = LastMac(wire', mac)
    /\ todo' = Unfolded(Tail(todo))
    /\ UNCHANGED <<lcd_orientation, char_pixel, calls, gpio, running, errors, halted, appvars>>

\* lcd_cmd / lcd_data: spi_device_polling_transmit returns an error and
\* "assert(ret == ESP_OK)" aborts the program
TransmitFailsNoAssert ==
    /\ AtOp({"spi"})
    /\ errors' = Append(errors, Head(todo).arg)
    /\ todo' = Unfolded(Tail(todo))
    /\ UNCHANGED <<lcd_orientation, mac, char_pixel, wire, calls, gpio, running, halted, appvars>>

TransmitFails ==
    /\ AtOp({"spi"})
    /\ errors' = Append(errors, Head(todo).arg)
    /\ halted' = TRUE
    /\ UNCHANGED <<lcd_orientation, mac, char_pixel, wire, calls, gpio, todo, running, appvars>>

\* gpio_set_level
SetPin ==
    /\ AtOp({"gpio"})
    /\ gpio' = Append(gpio, [pin |-> Head(todo).arg.pin, level |-> Head(todo).arg.level,
                             at |-> Len(wire)])
    /\ todo' = Unfolded(Tail(todo))
    /\ UNCHANGED <<lcd_orientation, mac, char_pixel, wire, calls, running, errors, halted, appvars>>

\* vTaskDelay, and spi_config / gpio_config when they succeed
Proceed ==
    /\ AtOp({"delay", "setup"})
    /\ todo' = Unfolded(Tail(todo))
    /\ UNCHANGED <<lcd_orientation, mac, char_pixel, wire, calls, gpio, running, errors, halted, appvars>>

\* spi_config: ESP_ERROR_CHECK aborts the program
SetupFails ==
    /\ AtOp({"setup"})
    /\ Head(todo).arg = "spi_config"
    /\ halted' = TRUE
    /\ UNCHANGED <<lcd_orientation, mac, char_pixel, wire, calls, gpio, todo, running, errors, appvars>>

\* the running routine returns to its caller
Return ==
    /\ ~halted
    /\ running # Idle
    /\ todo = << >>
    /\ calls' = Append(calls, [op |-> running.op, args |-> running.args,
                                after |-> lcd_orientation, mac |-> mac,
                                sent |-> Len(wire) - running.from])
    /\ running' = Idle
    /\ UNCHANGED <<lcd_orientation, mac, char_pixel, wire, gpio, todo, errors, halted, appvars>>

RunStep == Transmit \/ TransmitFails \/ SetPin \/ Proceed \/ SetupFails \/ Return

RunNext ==
    \/ EnterInit
    \/ Len(calls) <= MaxCalls /\ \E o \in {"ILI9341_Landscape_1"} : EnterRotate(o)
    \/ Len(calls) <= MaxCalls /\ EnterDrawPixel(1, 0, DIGITO_APAGADO)
    \/ Len(calls) <= MaxCalls /\ EnterFill(MaxX, MaxY, 0, 0, DIGITO_APAGADO)
    \/ Transmit
    \/ TransmitFails
    \/ SetPin
    \/ Proceed
    \/ SetupFails
    \/ Return

\* the processor goes on executing the running routine
RunSpec == RunInit /\ [][RunNext]_vars /\ WF_vars(RunStep)

(***************************************************************************)
(* StepSpec: from the initialised driver, at most one rotation and then    *)
(* one call of a public routine, executed one SPI transfer at a time; the  *)
(* wire holds the transfers of the routine that is running.                *)
(***************************************************************************)
StepFont == [FontWidth |-> 7, FontHeight |-> 10, stray |-> 0]

Begin(op, args, ops, orient, cpixel) ==
    /\ running = Idle
    /\ IF calls = << >> THEN TRUE ELSE Len(calls) = 1 /\ calls[1].op = "ILI9341Rotate"
    /\ running' = [op |-> op, args |-> args, from |-> 0]
    /\ todo' = Unfolded(ops)
    /\ lcd_orientation' = orient
    /\ char_pixel' = cpixel
    /\ wire' = << >>
    /\ UNCHANGED <<mac, calls, gpio, errors, halted, appvars>>

StepNext ==
    \/ \E o \in Orientations :
          Begin("ILI9341Rotate", <<o>>, SpiOps(ILI9341Rotate(o)),
                Rotated(o, lcd_orientation), char_pixel)
    \/ Begin("Fill", <<0, 0, MaxX, 1, DIGITO_APAGADO>>, FillOps(0, 0, MaxX, 1, DIGITO_APAGADO),
             lcd_orientation, char_pixel)
    \/ Begin("ILI9341Fill", <<ILI9341_BLACK>>, ILI9341FillOps(ILI9341_BLACK, lcd_orientation),
             lcd_orientation, char_pixel)
    \/ Begin("ILI9341DrawPixel", <<1, 0, MEM_ACC_CTRL>>,
             SpiOps(ILI9341DrawPixel(1, 0, MEM_ACC_CTRL)), lcd_orientation, char_pixel)
    \/ \E x1 \in {StringX + 2, 400} :
          Begin("ILI9341DrawLine", <<StringX, 0, x1, 1, DIGITO_APAGADO>>,
                SpiOps(ILI9341DrawLine(StringX, 0, x1, 1, DIGITO_APAGADO, lcd_orientation)),
                lcd_orientation, char_pixel)
    \/ Begin("ILI9341DrawRectangle", <<0, 0, 2, 2, DIGITO_APAGADO>>,
             SpiOps(ILI9341DrawRectangle(0, 0, 2, 2, DIGITO_APAGADO, lcd_orientation)),
             lcd_orientation, char_pixel)
    \/ Begin("ILI9341DrawFilledRectangle", <<MaxX, MaxY, 0, 0, DIGITO_APAGADO>>,
             SpiOps(ILI9341DrawFilledRectangle(MaxX, MaxY, 0, 0, DIGITO_APAGADO)),
             lcd_orientation, char_pixel)
    \/ Begin("ILI9341DrawCircle", <<2, 2, 2, DIGITO_APAGADO>>,
             SpiOps(ILI9341DrawCircle(2, 2, 2, DIGITO_APAGADO)), lcd_orientation, char_pixel)
    \/ Begin("ILI9341DrawFilledCircle", <<2, 2, 2, DIGITO_APAGADO>>,
             SpiOps(ILI9341DrawFilledCircle(2, 2, 2, DIGITO_APAGADO, lcd_orientation)),
             lcd_orientation, char_pixel)
    \/ LET r == ILI9341DrawChar(0, 0, 65, StepFont, 63488, DIGITO_APAGADO, lcd_orientation,
                                char_pixel)
       IN  Begin("ILI9341DrawChar", <<0, 0, 65, StepFont, 63488, DIGITO_APAGADO>>, SpiOps(r.tr),
                 lcd_orientation, r.pixel)
    \/ LET r == ILI9341DrawString(StringX, 0, <<65, 10, 66, 0>>, StepFont, 63488,
                                  DIGITO_APAGADO, lcd_orientation, char_pixel)
       IN  Begin("ILI9341DrawString",
                 <<StringX, 0, <<65, 10, 66, 0>>, StepFont, 63488, DIGITO_APAGADO>>,
                 SpiOps(r.tr), lcd_orientation, r.pixel)
    \/ Begin("ILI9341GetStringSize",
             <<<<65, 66, 0>>, StepFont, ILI9341GetStringSize(<<65, 66, 0>>, StepFont)>>,
             << >>, lcd_orientation, char_pixel)
    \/ Begin("ILI9341DrawPicture", <<0, 0, 2, 2>>, SpiOps(ILI9341DrawPicture(0, 0, 2, 2)),
             lcd_orientation, char_pixel)
    \/ Transmit
    \/ Return

StepSpec == Init /\ [][StepNext]_vars

(***************************************************************************)
(* app_main                                                                *)
(***************************************************************************)
\* ILI9341Init(), ILI9341Rotate(ILI9341_Landscape_1), CrearPanel(...): the
\* call is entered
MainEnterDriver ==
    /\ pc["app_main"] \in {"L252", "L253", "L263"}
    /\ Goto("app_main", CASE At("app_main", "L252") -> "in_L252"
                          [] At("app_main", "L253") -> "in_L253"
                          [] At("app_main", "L263") -> "in_L263")
    /\ UNCHANGED <<drvvars, sem, decimas, botonesEstado, xButtonEventGroup, counting, display,
                   toggle, led, button, env>>

MainInitDone ==
    /\ At("app_main", "in_L252")
    /\ Goto("app_main", "L253")
    /\ UNCHANGED <<drvvars, sem, decimas, botonesEstado, xButtonEventGroup, counting, display,
                   toggle, led, button, env>>

MainRotateDone ==
    /\ At("app_main", "in_L253")
    /\ lcd_orientation' = Rotated("ILI9341_Landscape_1", lcd_orientation)
    /\ mac' = MemAcc("ILI9341_Landscape_1")
    /\ Goto("app_main", "L256")
    /\ UNCHANGED <<char_pixel, wire, calls, gpio, todo, running, errors, halted, sem, decimas,
                   botonesEstado, xButtonEventGroup, counting, display, toggle, led, button, env>>

\* the mutexes are created and displayTask is started before the panels
MainCreateMutexesStartDisplay ==
    /\ At("app_main", "L256")
    /\ sem' = [semDecimas |-> "free", semParciales |-> "free"]
    /\ pc' = [pc EXCEPT !["app_main"] = "L263", !["displayTask"] = "L87"]
    /\ UNCHANGED <<drvvars, decimas, botonesEstado, xButtonEventGroup, counting, display, toggle,
                   led, button, env>>

\* xSemaphoreCreateMutex() twice
MainCreateMutexes ==
    /\ At("app_main", "L256")
    /\ sem' = [semDecimas |-> "free", semParciales |-> "free"]
    /\ Goto("app_main", "L263")
    /\ UNCHANGED <<drvvars, decimas, botonesEstado, xButtonEventGroup, counting, display, toggle,
                   led, button, env>>

MainPanelsDone ==
    /\ At("app_main", "in_L263")
    /\ Goto("app_main", "L277")
    /\ UNCHANGED <<drvvars, sem, decimas, botonesEstado, xButtonEventGroup, counting, display,
                   toggle, led, button, env>>

\* gpio_set_direction and gpio_set_level(.., 1) of the LEDs, ButtonEvents_Init()
MainConfigPins ==
    /\ At("app_main", "L277")
    /\ led' = [led EXCEPT !.LED_VERDE = 1, !.LED_ROJO = 1]
    /\ Goto("app_main", "L295")
    /\ UNCHANGED <<drvvars, sem, decimas, botonesEstado, xButtonEventGroup, counting, display,
                   toggle, button, env>>

\* the five xTaskCreateStatic calls, in order, and vTaskDelete(NULL)
MainCreateTask ==
    /\ pc["app_main"] \in {"L295", "L298", "L301", "L304", "L310"}
    /\ pc' = CASE At("app_main", "L295") ->
                    [pc EXCEPT !["app_main"] = "L298", !["decimasTask"] = "L68"]
               [] At("app_main", "L298") ->
                    [pc EXCEPT !["app_main"] = "L301", !["displayTask"] = "L87"]
               [] At("app_main", "L301") ->
                    [pc EXCEPT !["app_main"] = "L304", !["toggleTask"] = "L178"]
               [] At("app_main", "L304") ->
                    [pc EXCEPT !["app_main"] = "L310", !["LedStatusTask"] = "L222"]
               [] At("app_main", "L310") ->
                    [pc EXCEPT !["app_main"] = "deleted", !["ButtonEvents_Task"] = "L27"]
    /\ UNCHANGED <<drvvars, sem, decimas, botonesEstado, xButtonEventGroup, counting, display,
                   toggle, led, button, env>>

(***************************************************************************)
(* decimasTask                                                             *)
(***************************************************************************)
DecimasTake ==
    /\ At("decimasTask", "L68")
    /\ Take("decimasTask", "semDecimas")
    /\ Goto("decimasTask", "L69")
    /\ UNCHANGED <<drvvars, decimas, botonesEstado, xButtonEventGroup, counting, display, toggle,
                   led, button, env>>

\* the tests of lines 69 and 71: which assignment the iteration makes
DecimasTest ==
    /\ At("decimasTask", "L69")
    /\ counting' = [counting EXCEPT !.update =
                    IF botonesEstado.reset # 0 /\ botonesEstado.arrancar = 0 THEN "zero"
                    ELSE IF botonesEstado.arrancar # 0 THEN "increment" ELSE "none"]
    /\ Goto("decimasTask", "L70")
    /\ UNCHANGED <<drvvars, sem, decimas, botonesEstado, xButtonEventGroup, display, toggle,
                   led, button, env>>

\* the update with the counter advanced by two
DecimasUpdateTwice ==
    /\ At("decimasTask", "L70")
    /\ decimas' = CASE counting.update = "zero" -> U32Zero
                    [] counting.update = "increment" -> U32Inc(U32Inc(decimas))
                    [] counting.update = "none" -> decimas
    /\ counting' = [counting EXCEPT !.ticks = IF counting.update = "increment" THEN @ + 1 ELSE @]
    /\ Goto("decimasTask", "L73")
    /\ UNCHANGED <<drvvars, sem, botonesEstado, xButtonEventGroup, display, toggle, led,
                   button, env>>

\* "decimas = 0" (line 70), "decimas++" (line 72), or neither
DecimasUpdate ==
    /\ At("decimasTask", "L70")
    /\ decimas' = CASE counting.update = "zero" -> U32Zero
                    [] counting.update = "increment" -> U32Inc(decimas)
                    [] counting.update = "none" -> decimas
    /\ counting' = [counting EXCEPT !.ticks = IF counting.update = "increment" THEN @ + 1 ELSE @]
    /\ Goto("decimasTask", "L73")
    /\ UNCHANGED <<drvvars, sem, botonesEstado, xButtonEventGroup, display, toggle, led,
                   button, env>>

\* line 73 without the give: decimasTask sleeps with the mutex
DecimasGiveOmitted ==
    /\ At("decimasTask", "L73")
    /\ Goto("decimasTask", "L75")
    /\ UNCHANGED <<drvvars, sem, decimas, botonesEstado, xButtonEventGroup, counting, display,
                   toggle, led, button, env>>

DecimasGive ==
    /\ At("decimasTask", "L73")
    /\ Give("decimasTask", "semDecimas")
    /\ Goto("decimasTask", "L75")
    /\ UNCHANGED <<drvvars, decimas, botonesEstado, xButtonEventGroup, counting, display, toggle,
                   led, button, env>>

\* vTaskDelayUntil returns; the run is followed for MaxTicks increments
DecimasDelay ==
    /\ At("decimasTask", "L75")
    /\ counting.ticks < MaxTicks
    /\ Goto("decimasTask", "L68")
    /\ UNCHANGED <<drvvars, sem, decimas, botonesEstado, xButtonEventGroup, counting, display,
                   toggle, led, button, env>>

(***************************************************************************)
(* displayTask                                                             *)
(***************************************************************************)
\* line 87: "if (botonesEstado.congelar) actualizo = 0;"
DisplayTestFrozen ==
    /\ At("displayTask", "L87")
    /\ display' = [display EXCEPT !.actualizo = IF botonesEstado.congelar # 0 THEN 0 ELSE @]
    /\ Goto("displayTask", "L91")
    /\ UNCHANGED <<drvvars, sem, decimas, botonesEstado, xButtonEventGroup, counting, toggle, led,
                   button, env>>

\* line 91: "if ((botonesEstado.congelar == 0) && (actualizo == 0))"
DisplayTestLap ==
    /\ At("displayTask", "L91")
    /\ Goto("displayTask", IF botonesEstado.congelar = 0 /\ display.actualizo = 0
                           THEN "L92" ELSE "L104")
    /\ UNCHANGED <<drvvars, sem, decimas, botonesEstado, xButtonEventGroup, counting, display,
                   toggle, led, button, env>>

\* xSemaphoreTake(semParciales, ..) of lines 92, 138 and 146
DisplayTakeParciales ==
    /\ pc["displayTask"] \in {"L92", "L138", "L146"}
    /\ Take("displayTask", "semParciales")
    /\ Goto("displayTask", CASE At("displayTask", "L92") -> "L93"
                             [] At("displayTask", "L138") -> "L139"
                             [] At("displayTask", "L146") -> "L147")
    /\ UNCHANGED <<drvvars, decimas, botonesEstado, xButtonEventGroup, counting, display, toggle,
                   led, button, env>>

\* lines 93-96: the lap times move down by one and the shown time enters
DisplayShift ==
    /\ At("displayTask", "L93")
    /\ display' = [display EXCEPT !.parciales =
                      [i \in 0..3 |-> IF i = 0 THEN display.total ELSE display.parciales[i - 1]]]
    /\ Goto("displayTask", "L97")
    /\ UNCHANGED <<drvvars, sem, decimas, botonesEstado, xButtonEventGroup, counting, toggle, led,
                   button, env>>

\* xSemaphoreGive(semParciales) of lines 97, 142 and 151; "actualizo = 1"
\* follows the one of line 97
DisplayGiveParciales ==
    /\ pc["displayTask"] \in {"L97", "L142", "L151"}
    /\ Give("displayTask", "semParciales")
    /\ display' = [display EXCEPT !.actualizo = IF At("displayTask", "L97") THEN 1 ELSE @]
    /\ Goto("displayTask", CASE At("displayTask", "L97") -> "L104"
                             [] At("displayTask", "L142") -> "L145"
                             [] At("displayTask", "L151") -> "L156")
    /\ UNCHANGED <<drvvars, decimas, botonesEstado, xButtonEventGroup, counting, toggle, led,
                   button, env>>

DisplayTakeDecimas ==
    /\ At("displayTask", "L104")
    /\ Take("displayTask", "semDecimas")
    /\ Goto("displayTask", "L105")
    /\ UNCHANGED <<drvvars, decimas, botonesEstado, xButtonEventGroup, counting, display, toggle,
                   led, button, env>>

\* line 106 without the test of line 105
DisplayReadDecimasAlways ==
    /\ At("displayTask", "L105")
    /\ display' = [display EXCEPT !.total = decimas]
    /\ Goto("displayTask", "L107")
    /\ UNCHANGED <<drvvars, sem, decimas, botonesEstado, xButtonEventGroup, counting, toggle, led,
                   button, env>>

\* lines 105-106: "if (!botonesEstado.congelar) total = decimas;"
DisplayReadDecimas ==
    /\ At("displayTask", "L105")
    /\ display' = [display EXCEPT !.total = IF botonesEstado.congelar = 0 THEN decimas ELSE @]
    /\ Goto("displayTask", "L107")
    /\ UNCHANGED <<drvvars, sem, decimas, botonesEstado, xButtonEventGroup, counting, toggle, led,
                   button, env>>

\* line 107 without the give: the mutex stays with displayTask
DisplayKeepDecimas ==
    /\ At("displayTask", "L107")
    /\ Goto("displayTask", "L117")
    /\ UNCHANGED <<drvvars, sem, decimas, botonesEstado, xButtonEventGroup, counting, display,
                   toggle, led, button, env>>

DisplayGiveDecimas ==
    /\ At("displayTask", "L107")
    /\ Give("displayTask", "semDecimas")
    /\ Goto("displayTask", "L117")
    /\ UNCHANGED <<drvvars, decimas, botonesEstado, xButtonEventGroup, counting, display, toggle,
                   led, button, env>>

\* the drawing calls of lines 117-134 (digits and circles) and of line 161
\* (the three lap times) are entered
DisplayEnterDriver ==
    /\ pc["displayTask"] \in {"L117", "L156"}
    /\ Goto("displayTask", IF At("displayTask", "L117") THEN "in_L117" ELSE "in_L161")
    /\ UNCHANGED <<drvvars, sem, decimas, botonesEstado, xButtonEventGroup, counting, display,
                   toggle, led, button, env>>

\* the digits and circles of lines 112-134 are on the panel
DisplayDigitsDrawn ==
    /\ At("displayTask", "in_L117")
    /\ display' = [display EXCEPT !.shown = TimeDigits(display.total)]
    /\ Goto("displayTask", "L138")
    /\ UNCHANGED <<drvvars, sem, decimas, botonesEstado, xButtonEventGroup, counting, toggle, led,
                   button, env>>

\* lines 139-141
DisplayCopyParciales ==
    /\ At("displayTask", "L139")
    /\ display' = [display EXCEPT !.local_parciales = [i \in 0..2 |-> display.parciales[i]]]
    /\ Goto("displayTask", "L142")
    /\ UNCHANGED <<drvvars, sem, decimas, botonesEstado, xButtonEventGroup, counting, toggle, led,
                   button, env>>

\* line 145: "if (decimas == 0)"
DisplayTestZero ==
    /\ At("displayTask", "L145")
    /\ Goto("displayTask", IF decimas = U32Zero THEN "L146" ELSE "L156")
    /\ UNCHANGED <<drvvars, sem, decimas, botonesEstado, xButtonEventGroup, counting, display,
                   toggle, led, button, env>>

\* lines 147-150
DisplayClearParciales ==
    /\ At("displayTask", "L147")
    /\ display' = [display EXCEPT !.parciales = [i \in 0..3 |-> U32Zero]]
    /\ Goto("displayTask", "L151")
    /\ UNCHANGED <<drvvars, sem, decimas, botonesEstado, xButtonEventGroup, counting, toggle, led,
                   button, env>>

\* the three strings of lines 156-163 are on the panel
DisplayTextDrawn ==
    /\ At("displayTask", "in_L161")
    /\ display' = [display EXCEPT !.text =
                      [i \in 0..2 |-> PartialText(display.local_parciales[i])]]
    /\ Goto("displayTask", "L165")
    /\ UNCHANGED <<drvvars, sem, decimas, botonesEstado, xButtonEventGroup, counting, toggle, led,
                   button, env>>

\* vTaskDelay(pdMS_TO_TICKS(45)) returns
DisplayDelay ==
    /\ At("displayTask", "L165")
    /\ Goto("displayTask", "L87")
    /\ UNCHANGED <<drvvars, sem, decimas, botonesEstado, xButtonEventGroup, counting, display,
                   toggle, led, button, env>>

(***************************************************************************)
(* toggleTask                                                              *)
(***************************************************************************)
Not(v) == IF v = 0 THEN 1 ELSE 0

\* lines 209-213 and the return to the wait of line 178
ToFunc(tg) ==
    /\ toggle' = IF EV_BIT_FUNC_CHANGE \in tg.bits
                 THEN [tg EXCEPT !.PB3State = Not(@)] ELSE tg
    /\ Goto("toggleTask", "L178")

\* lines 197-198, then the take of line 200
ToReset(tg) ==
    IF EV_BIT_RESET \in tg.bits
    THEN /\ toggle' = [tg EXCEPT !.PB2State = Not(@)]
         /\ Goto("toggleTask", "L200")
    ELSE ToFunc(tg)

\* xEventGroupWaitBits returns the bits that are set and clears them; lines
\* 189-190 follow
ToggleWait ==
    /\ At("toggleTask", "L178")
    /\ xButtonEventGroup # {}
    /\ xButtonEventGroup' = {}
    /\ LET tg == [toggle EXCEPT !.bits = xButtonEventGroup]
       IN  IF EV_BIT_START_STOP \in tg.bits
           THEN /\ toggle' = [tg EXCEPT !.PB1State = Not(@)]
                /\ Goto("toggleTask", "L191")
           ELSE ToReset(tg)
    /\ UNCHANGED <<drvvars, sem, decimas, botonesEstado, counting, display, led, button, env>>

\* line 191 without the negation
ToggleArrancarDirect ==
    /\ At("toggleTask", "L191")
    /\ botonesEstado' = [botonesEstado EXCEPT !.arrancar = toggle.PB1State]
    /\ Goto("toggleTask", "L193")
    /\ UNCHANGED <<drvvars, sem, decimas, xButtonEventGroup, counting, display, toggle, led,
                   button, env>>

\* line 191: "botonesEstado.arrancar = !PB1State;"
ToggleArrancar ==
    /\ At("toggleTask", "L191")
    /\ botonesEstado' = [botonesEstado EXCEPT !.arrancar = Not(toggle.PB1State)]
    /\ Goto("toggleTask", "L193")
    /\ UNCHANGED <<drvvars, sem, decimas, xButtonEventGroup, counting, display, toggle, led,
                   button, env>>

\* line 193: "botonesEstado.congelar = (botonesEstado.arrancar == 0);"
ToggleCongelar ==
    /\ At("toggleTask", "L193")
    /\ botonesEstado' = [botonesEstado EXCEPT
                            !.congelar = IF botonesEstado.arrancar = 0 THEN 1 ELSE 0]
    /\ ToReset(toggle)
    /\ UNCHANGED <<drvvars, sem, decimas, xButtonEventGroup, counting, display, led, button, env>>

ToggleTake ==
    /\ At("toggleTask", "L200")
    /\ Take("toggleTask", "semDecimas")
    /\ Goto("toggleTask", "L201")
    /\ UNCHANGED <<drvvars, decimas, botonesEstado, xButtonEventGroup, counting, display, toggle,
                   led, button, env>>

\* line 201 left out
ToggleZeroSkipped ==
    /\ At("toggleTask", "L201")
    /\ Goto("toggleTask", "L202")
    /\ UNCHANGED <<drvvars, sem, decimas, botonesEstado, xButtonEventGroup, counting, display,
                   toggle, led, button, env>>

\* line 201: "decimas = 0;"
ToggleZero ==
    /\ At("toggleTask", "L201")
    /\ decimas' = U32Zero
    /\ Goto("toggleTask", "L202")
    /\ UNCHANGED <<drvvars, sem, botonesEstado, xButtonEventGroup, counting, display, toggle, led,
                   button, env>>

ToggleGive ==
    /\ At("toggleTask", "L202")
    /\ Give("toggleTask", "semDecimas")
    /\ Goto("toggleTask", "L205")
    /\ UNCHANGED <<drvvars, decimas, botonesEstado, xButtonEventGroup, counting, display, toggle,
                   led, button, env>>

\* line 205: "botonesEstado.congelar = 0;"
ToggleUnfreeze ==
    /\ At("toggleTask", "L205")
    /\ botonesEstado' = [botonesEstado EXCEPT !.congelar = 0]
    /\ ToFunc(toggle)
    /\ UNCHANGED <<drvvars, sem, decimas, xButtonEventGroup, counting, display, led, button, env>>

(***************************************************************************)
(* LedStatusTask                                                           *)
(***************************************************************************)
\* one iteration: lines 222-228 and the delay of line 230
LedStatus ==
    /\ At("LedStatusTask", "L222")
    /\ LET v == IF botonesEstado.arrancar # 0 THEN Not(led.ledVerde) ELSE 1
       IN  led' = [ledVerde |-> v,
                   LED_VERDE |-> IF botonesEstado.congelar = 0 THEN v ELSE 1,
                   LED_ROJO |-> IF botonesEstado.congelar = 0 THEN 1 ELSE 0]
    /\ UNCHANGED <<drvvars, pc, sem, decimas, botonesEstado, xButtonEventGroup, counting, display,
                   toggle, button, env>>

(***************************************************************************)
(* ButtonEvents_Task and the buttons                                       *)
(***************************************************************************)
\* the test on the level alone
LowLevel(b, p) == b.cur[p] = 0

\* "cur == 0 && prev == 1"
FallingEdge(b, p) == b.cur[p] = 0 /\ b.prev[p] = 1

\* the tests of lines 32, 36 and 40 from the given one on: the line of the
\* next xEventGroupSetBits, or lines 43-47 and the next poll
ButtonFrom(b, line) ==
    IF line <= 33 /\ FallingEdge(b, "BUTTON_PIN_START_STOP")
    THEN /\ button' = b
         /\ Goto("ButtonEvents_Task", "L33")
    ELSE IF line <= 37 /\ FallingEdge(b, "BUTTON_PIN_RESET")
    THEN /\ button' = b
         /\ Goto("ButtonEvents_Task", "L37")
    ELSE IF line <= 41 /\ FallingEdge(b, "BUTTON_PIN_FUNC")
    THEN /\ button' = b
         /\ Goto("ButtonEvents_Task", "L41")
    ELSE /\ button' = [b EXCEPT !.prev = b.cur]
         /\ Goto("ButtonEvents_Task", "L27")

\* lines 27-29: the three levels are read
ButtonPoll ==
    /\ At("ButtonEvents_Task", "L27")
    /\ ButtonFrom([button EXCEPT !.cur = env.level], 33)
    /\ UNCHANGED <<drvvars, sem, decimas, botonesEstado, xButtonEventGroup, counting, display,
                   toggle, led, env>>

\* xEventGroupSetBits of line 33, 37 or 41
ButtonSetBits ==
    /\ pc["ButtonEvents_Task"] \in {"L33", "L37", "L41"}
    /\ xButtonEventGroup' = xButtonEventGroup \cup
          {CASE At("ButtonEvents_Task", "L33") -> EV_BIT_START_STOP
             [] At("ButtonEvents_Task", "L37") -> EV_BIT_RESET
             [] At("ButtonEvents_Task", "L41") -> EV_BIT_FUNC_CHANGE}
    /\ ButtonFrom(button, CASE At("ButtonEvents_Task", "L33") -> 37
                            [] At("ButtonEvents_Task", "L37") -> 41
                            [] At("ButtonEvents_Task", "L41") -> 43)
    /\ UNCHANGED <<drvvars, sem, decimas, botonesEstado, counting, display, toggle, led, env>>

\* a button is pressed (its pin goes low) or released.  The buttons are
\* followed from the creation of ButtonEvents_Task on: its first poll sees a
\* press made earlier like one made right after its creation.
Press(p) ==
    /\ pc["ButtonEvents_Task"] # "not_created"
    /\ env.level[p] = 1
    /\ env.presses < MaxPresses
    /\ env' = [level |-> [env.level EXCEPT ![p] = 0], presses |-> env.presses + 1]
    /\ UNCHANGED <<drvvars, pc, sem, decimas, botonesEstado, xButtonEventGroup, counting, display,
                   toggle, led, button>>

Release(p) ==
    /\ env.level[p] = 0
    /\ env' = [env EXCEPT !.level[p] = 1]
    /\ UNCHANGED <<drvvars, pc, sem, decimas, botonesEstado, xButtonEventGroup, counting, display,
                   toggle, led, button>>

(***************************************************************************)
(* AppSpec: app_main from power-on, then the five tasks in any order       *)
(***************************************************************************)
MainStep ==
    \/ MainEnterDriver
    \/ MainInitDone
    \/ MainRotateDone
    \/ MainCreateMutexes
    \/ MainPanelsDone
    \/ MainConfigPins
    \/ MainCreateTask

DecimasStep == DecimasTake \/ DecimasTest \/ DecimasUpdate \/ DecimasGive \/ DecimasDelay

DisplayStep ==
    \/ DisplayTestFrozen
    \/ DisplayTestLap
    \/ DisplayTakeParciales
    \/ DisplayShift
    \/ DisplayGiveParciales
    \/ DisplayTakeDecimas
    \/ DisplayReadDecimas
    \/ DisplayGiveDecimas
    \/ DisplayEnterDriver
    \/ DisplayDigitsDrawn
    \/ DisplayCopyParciales
    \/ DisplayTestZero
    \/ DisplayClearParciales
    \/ DisplayTextDrawn
    \/ DisplayDelay

ToggleStep ==
    \/ ToggleWait
    \/ ToggleArrancar
    \/ ToggleCongelar
    \/ ToggleTake
    \/ ToggleZero
    \/ ToggleGive
    \/ ToggleUnfreeze

ButtonStep == ButtonPoll \/ ButtonSetBits

TaskStep == DecimasStep \/ DisplayStep \/ ToggleStep \/ LedStatus \/ ButtonStep

Buttons == \E p \in ButtonPins : Press(p) \/ Release(p)

AppNext == MainStep \/ TaskStep \/ Buttons

AppSpec == RunInit /\ [][AppNext]_vars

(***************************************************************************)
(* LongRunSpec: the five tasks after the stopwatch has counted 2^32 - 2    *)
(* periods of decimasTask (497 days) and has then been stopped: decimas is *)
(* two increments from the end of its type, the display is frozen on it    *)
(* and no lap time is stored.  app_main is gone.  The run is followed for  *)
(* one more button press.                                                  *)
(***************************************************************************)
LongRunInit ==
    /\ lcd_orientation = Rotated("ILI9341_Landscape_1",
                                 [width |-> ILI9341_WIDTH, height |-> ILI9341_HEIGHT,
                                  orientation |-> "ILI9341_Portrait_1"])
    /\ mac = MemAcc("ILI9341_Landscape_1")
    /\ char_pixel = [n \in 1..MAX_VALUE_SIZE |-> 0]
    /\ wire = << >>
    /\ calls = << >>
    /\ gpio = << >>
    /\ todo = << >>
    /\ running = Idle
    /\ errors = << >>
    /\ halted = FALSE
    /\ pc = [app_main |-> "deleted", decimasTask |-> "L68", displayTask |-> "L87",
             toggleTask |-> "L178", LedStatusTask |-> "L222", ButtonEvents_Task |-> "L27"]
    /\ sem = [semDecimas |-> "free", semParciales |-> "free"]
    /\ decimas = [hi |-> 65535, lo |-> 65534]
    /\ botonesEstado = [arrancar |-> 0, reset |-> 0, congelar |-> 1]
    /\ xButtonEventGroup = {}
    /\ counting = [update |-> "none", ticks |-> 0]
    /\ display = [total |-> [hi |-> 65535, lo |-> 65534],
                  parciales |-> [i \in 0..3 |-> U32Zero], actualizo |-> 0,
                  local_parciales |-> [i \in 0..2 |-> U32Zero],
                  shown |-> TimeDigits([hi |-> 65535, lo |-> 65534]),
                  text |-> [i \in 0..2 |-> PartialText(U32Zero)]]
    /\ toggle = [bits |-> {EV_BIT_START_STOP}, PB1State |-> 1, PB2State |-> 1, PB3State |-> 1]
    /\ led = [ledVerde |-> 1, LED_VERDE |-> 1, LED_ROJO |-> 0]
    /\ button = [prev |-> [p \in ButtonPins |-> 1], cur |-> [p \in ButtonPins |-> 1]]
    /\ env = [level |-> [p \in ButtonPins |-> 1], presses |-> MaxPresses - 1]

LongRunNext == TaskStep \/ Buttons

LongRunSpec == LongRunInit /\ [][LongRunNext]_vars

(***************************************************************************)
(* FairSpec: the five tasks under the scheduler, followed for one more     *)
(* button press from two situations: the stopped and frozen stopwatch of   *)
(* LongRunSpec, and the stopwatch started by a first press and counting.   *)
(* Every task blocks in each iteration of its loop (vTaskDelay,            *)
(* vTaskDelayUntil, xEventGroupWaitBits), so every task that is ready gets *)
(* the processor.  toggleTask waits for semDecimas with portMAX_DELAY: of  *)
(* the two other users, displayTask has a lower priority and is preempted  *)
(* when it gives the mutex, and decimasTask sleeps for the rest of its     *)
(* 10 ms period after giving it, so the waiting toggleTask obtains it.     *)
(* For the same reason the takes of semDecimas by decimasTask (the highest *)
(* priority: it runs as soon as the mutex is given) and by displayTask     *)
(* (decimasTask and toggleTask block right after their give) are strongly  *)
(* fair.  semParciales has displayTask as its only user.                   *)
(***************************************************************************)
StartedInit ==
    /\ lcd_orientation = Rotated("ILI9341_Landscape_1",
                                 [width |-> ILI9341_WIDTH, height |-> ILI9341_HEIGHT,
                                  orientation |-> "ILI9341_Portrait_1"])
    /\ mac = MemAcc("ILI9341_Landscape_1")
    /\ char_pixel = [n \in 1..MAX_VALUE_SIZE |-> 0]
    /\ wire = << >>
    /\ calls = << >>
    /\ gpio = << >>
    /\ todo = << >>
    /\ running = Idle
    /\ errors = << >>
    /\ halted = FALSE
    /\ pc = [app_main |-> "deleted", decimasTask |-> "L68", displayTask |-> "L87",
             toggleTask |-> "L178", LedStatusTask |-> "L222", ButtonEvents_Task |-> "L27"]
    /\ sem = [semDecimas |-> "free", semParciales |-> "free"]
    /\ decimas = [hi |-> 0, lo |-> 1]
    /\ botonesEstado = [arrancar |-> 1, reset |-> 0, congelar |-> 0]
    /\ xButtonEventGroup = {}
    /\ counting = [update |-> "increment", ticks |-> 0]
    /\ display = [total |-> [hi |-> 0, lo |-> 1],
                  parciales |-> [i \in 0..3 |-> U32Zero], actualizo |-> 1,
                  local_parciales |-> [i \in 0..2 |-> U32Zero],
                  shown |-> TimeDigits([hi |-> 0, lo |-> 1]),
                  text |-> [i \in 0..2 |-> PartialText(U32Zero)]]
    /\ toggle = [bits |-> {EV_BIT_START_STOP}, PB1State |-> 0, PB2State |-> 1, PB3State |-> 1]
    /\ led = [ledVerde |-> 0, LED_VERDE |-> 0, LED_ROJO |-> 1]
    /\ button = [prev |-> [p \in ButtonPins |-> 1], cur |-> [p \in ButtonPins |-> 1]]
    /\ env = [level |-> [p \in ButtonPins |-> 1], presses |-> MaxPresses - 1]

FairInit == LongRunInit \/ StartedInit

FairSpec ==
    /\ FairInit
    /\ [][LongRunNext]_vars
    /\ WF_vars(DecimasStep)
    /\ WF_vars(DisplayStep)
    /\ WF_vars(ToggleStep)
    /\ SF_vars(ToggleTake)
    /\ SF_vars(DecimasTake)
    /\ SF_vars(DisplayTakeDecimas)
    /\ WF_vars(LedStatus)
    /\ WF_vars(ButtonStep)

(***************************************************************************)
(* Reading the wire                                                        *)
(***************************************************************************)
Min(a, b) == IF a < b THEN a ELSE b
Max(a, b) == IF a > b THEN a ELSE b
Abs(a) == IF a < 0 THEN -a ELSE a
BigEndian(v) == <<v \div 256, v % 256>>

IsCmd(t, c) == t.dc = 0 /\ t.bytes = <<c>>
IsData(t) == t.dc = 1
CmdTransfer(c) == [dc |-> 0, bytes |-> <<c>>]
DataTransfer(b) == [dc |-> 1, bytes |-> b]

\* the window a call selects: the two address commands with their parameters
WindowTransfers(xa, xb, ya, yb) ==
    << CmdTransfer(COLUMN_ADDR_SET), DataTransfer(BigEndian(xa) \o BigEndian(xb)),
       CmdTransfer(PAGE_ADDR_SET), DataTransfer(BigEndian(ya) \o BigEndian(yb)) >>

MemWrites(w) == {i \in 1..Len(w) : IsCmd(w[i], MEM_WRITE)}
FirstMemWrite(w) == CHOOSE i \in MemWrites(w) : \A j \in MemWrites(w) : i <= j

\* the transfers that follow the (first) memory-write command
PixelTransfers(w) ==
    IF MemWrites(w) = {} THEN << >> ELSE SubSeq(w, FirstMemWrite(w) + 1, Len(w))
ChunkLens(w) == [i \in 1..Len(PixelTransfers(w)) |-> Len(PixelTransfers(w)[i].bytes)]

RECURSIVE SumSeq(_)
SumSeq(q) == IF q = << >> THEN 0 ELSE q[1] + SumSeq(Tail(q))

RECURSIVE Flatten(_)
Flatten(q) == IF q = << >> THEN << >> ELSE q[1].bytes \o Flatten(Tail(q))

PixelBytes(w) == SumSeq(ChunkLens(w))
PixelStream(w) == Flatten(PixelTransfers(w))

\* the area of the rectangle with corners (x0, y0) and (x1, y1), in bytes
RectBytes(x0, y0, x1, y1) == (Abs(x1 - x0) + 1) * (Abs(y1 - y0) + 1) * 2

(***************************************************************************)
(* C1  SetCursorPosition, for corners in either order, sends the column    *)
(* address command with the four bytes big-endian min(x0,x1), max(x0,x1)   *)
(* and then the page address command with the four bytes big-endian        *)
(* min(y0,y1), max(y0,y1); the values are not clamped or changed.          *)
(***************************************************************************)
C1_WindowNormalized ==
    Called("SetCursorPosition") =>
        LET a == LastCall.args
        IN  wire = WindowTransfers(Min(a[1], a[3]), Max(a[1], a[3]),
                                   Min(a[2], a[4]), Max(a[2], a[4]))

\* both corner orders reversed, with coordinates beyond the panel
C1_Witness ==
    /\ Called("SetCursorPosition")
    /\ LastCall.args = <<65535, 256, 1, 239>>
    /\ wire[2].bytes = <<0, 1, 255, 255>>
    /\ wire[4].bytes = <<0, 239, 1, 0>>

(***************************************************************************)
(* C2  The lengths of the pixel data transfers that Fill issues after the  *)
(* memory-write command add up to (|x1-x0|+1)*(|y1-y0|+1)*2 exactly.       *)
(***************************************************************************)
C2_FillByteCount ==
    Called("Fill") =>
        LET a == LastCall.args
        IN  /\ Cardinality(MemWrites(wire)) = 1
            /\ \A i \in 1..Len(PixelTransfers(wire)) : IsData(PixelTransfers(wire)[i])
            /\ PixelBytes(wire) = RectBytes(a[1], a[2], a[3], a[4])

\* a rectangle given from its bottom-right corner that needs two transfers
C2_Witness ==
    /\ Called("Fill")
    /\ LastCall.args[1] = MaxX /\ LastCall.args[2] = MaxY
    /\ LastCall.args[3] = 0 /\ LastCall.args[4] = 0
    /\ PixelBytes(wire) = (MaxX + 1) * (MaxY + 1) * 2
    /\ Len(PixelTransfers(wire)) > 1

(***************************************************************************)
(* C3  The pixel data transfers of Fill are all MAX_VALUE_SIZE bytes long  *)
(* except possibly the last, which holds 1..MAX_VALUE_SIZE bytes; no empty *)
(* transfer is issued, and when the byte counting is a multiple of            *)
(* MAX_VALUE_SIZE the stream is exactly that many full transfers.          *)
(***************************************************************************)
C3_FillChunks ==
    Called("Fill") =>
        LET a == LastCall.args
            total == RectBytes(a[1], a[2], a[3], a[4])
            lens == ChunkLens(wire)
        IN  /\ Len(lens) = (total + MAX_VALUE_SIZE - 1) \div MAX_VALUE_SIZE
            /\ \A i \in 1..(Len(lens) - 1) : lens[i] = MAX_VALUE_SIZE
            /\ lens[Len(lens)] \in 1..MAX_VALUE_SIZE
            /\ \A i \in 1..Len(wire) : Len(wire[i].bytes) > 0
            /\ (total % MAX_VALUE_SIZE = 0) =>
                  lens = [i \in 1..(total \div MAX_VALUE_SIZE) |-> MAX_VALUE_SIZE]

\* a rectangle of exactly MAX_VALUE_SIZE bytes: one full transfer ends the wire
C3_Witness ==
    /\ Called("Fill")
    /\ RectBytes(LastCall.args[1], LastCall.args[2], LastCall.args[3], LastCall.args[4])
          = MAX_VALUE_SIZE
    /\ ChunkLens(wire) = <<MAX_VALUE_SIZE>>
    /\ Len(wire) = 6

(***************************************************************************)
(* C4  The pixel data of Fill, joined over all transfers, is the pair      *)
(* (high byte, low byte) of the colour repeated once per pixel of the      *)
(* rectangle, and it follows the window of the rectangle.                  *)
(***************************************************************************)
C4_FillContent ==
    Called("Fill") =>
        LET a == LastCall.args
            total == RectBytes(a[1], a[2], a[3], a[4])
        IN  /\ SubSeq(wire, 1, 4) = WindowTransfers(Min(a[1], a[3]), Max(a[1], a[3]),
                                                    Min(a[2], a[4]), Max(a[2], a[4]))
            /\ wire[5] = CmdTransfer(MEM_WRITE)
            /\ PixelStream(wire) =
                  [n \in 1..total |-> IF n % 2 = 1 THEN a[5] \div 256 ELSE a[5] % 256]

\* a fill in two transfers with a colour whose bytes differ
C4_Witness ==
    /\ Called("Fill")
    /\ LastCall.args[5] = 4660
    /\ Len(PixelTransfers(wire)) = 2
    /\ PixelTransfers(wire)[2].bytes[1] = 18
    /\ PixelTransfers(wire)[2].bytes[2] = 52

(***************************************************************************)
(* Pixels addressed on the wire: every window (column address command,     *)
(* page address command) selects the pixels of its columns and rows.       *)
(***************************************************************************)
Word(b, n) == b[n] * 256 + b[n + 1]

WindowStarts(w) ==
    {i \in 1..(Len(w) - 3) :
        /\ IsCmd(w[i], COLUMN_ADDR_SET) /\ IsData(w[i + 1]) /\ Len(w[i + 1].bytes) = 4
        /\ IsCmd(w[i + 2], PAGE_ADDR_SET) /\ IsData(w[i + 3]) /\ Len(w[i + 3].bytes) = 4}

Painted(w) ==
    UNION {(Word(w[i + 1].bytes, 1)..Word(w[i + 1].bytes, 3))
              \X (Word(w[i + 3].bytes, 1)..Word(w[i + 3].bytes, 3)) : i \in WindowStarts(w)}

InPanel(x, y) == x \in 0..(lcd_orientation.width - 1) /\ y \in 0..(lcd_orientation.height - 1)

(***************************************************************************)
(* C5  For endpoints inside the panel, the pixels drawn by ILI9341DrawLine *)
(* contain both the start point (x0, y0) and the end point (x1, y1).       *)
(***************************************************************************)
C5_LineEndpoints ==
    Called("ILI9341DrawLine") =>
        LET a == LastCall.args
        IN  (InPanel(a[1], a[2]) /\ InPanel(a[3], a[4])) =>
                /\ <<a[1], a[2]>> \in Painted(wire)
                /\ <<a[3], a[4]>> \in Painted(wire)

(***************************************************************************)
(* C6  For a horizontal or vertical line with endpoints inside the panel,  *)
(* ILI9341DrawLine sends exactly what Fill sends for the same two corners: *)
(* one window, one memory-write command and two bytes of the colour per    *)
(* pixel of the line; no pixel is addressed on its own.                    *)
(***************************************************************************)
C6_StraightLineIsFill ==
    Called("ILI9341DrawLine") =>
        LET a == LastCall.args
            length == Abs(a[3] - a[1]) + Abs(a[4] - a[2]) + 1
        IN  (InPanel(a[1], a[2]) /\ InPanel(a[3], a[4]) /\ (a[1] = a[3] \/ a[2] = a[4])) =>
                /\ wire = Fill(a[1], a[2], a[3], a[4], a[5])
                /\ Cardinality(WindowStarts(wire)) = 1
                /\ MemWrites(wire) = {5}
                /\ SubSeq(wire, 1, 4) = WindowTransfers(Min(a[1], a[3]), Max(a[1], a[3]),
                                                        Min(a[2], a[4]), Max(a[2], a[4]))
                /\ PixelStream(wire) =
                      [n \in 1..(length * 2) |-> IF n % 2 = 1 THEN a[5] \div 256 ELSE a[5] % 256]

\* a vertical line drawn upwards
C6_Witness ==
    /\ Called("ILI9341DrawLine")
    /\ LastCall.args[1] = 2 /\ LastCall.args[3] = 2
    /\ LastCall.args[2] = MaxLine /\ LastCall.args[4] = 0
    /\ PixelBytes(wire) = (MaxLine + 1) * 2

(***************************************************************************)
(* C7  For a circle that lies inside the panel, the pixels drawn by        *)
(* ILI9341DrawCircle are closed under the eight reflections about the      *)
(* centre and contain (x0, y0 + r), (x0, y0 - r), (x0 + r, y0), (x0 - r,   *)
(* y0).                                                                    *)
(***************************************************************************)
Reflections(x0, y0, a, b) ==
    { <<x0 + a, y0 + b>>, <<x0 - a, y0 + b>>, <<x0 + a, y0 - b>>, <<x0 - a, y0 - b>>,
      <<x0 + b, y0 + a>>, <<x0 - b, y0 + a>>, <<x0 + b, y0 - a>>, <<x0 - b, y0 - a>> }

C7_CircleSymmetry ==
    Called("ILI9341DrawCircle") =>
        LET x0 == LastCall.args[1]
            y0 == LastCall.args[2]
            r == LastCall.args[3]
        IN  (InPanel(x0 - r, y0 - r) /\ InPanel(x0 + r, y0 + r)) =>
                /\ \A p \in Painted(wire) :
                      Reflections(x0, y0, p[1] - x0, p[2] - y0) \subseteq Painted(wire)
                /\ {<<x0, y0 + r>>, <<x0, y0 - r>>, <<x0 + r, y0>>, <<x0 - r, y0>>}
                      \subseteq Painted(wire)

\* the largest circle that touches the left and top edges, with a point off
\* the axes and the diagonals
C7_Witness ==
    /\ Called("ILI9341DrawCircle")
    /\ LastCall.args[1] = MaxRadius /\ LastCall.args[2] = MaxRadius
    /\ LastCall.args[3] = MaxRadius
    /\ \E p \in Painted(wire) :
          /\ p[1] # MaxRadius /\ p[2] # MaxRadius
          /\ Abs(p[1] - MaxRadius) # Abs(p[2] - MaxRadius)

(***************************************************************************)
(* C8  Under RotSpec.  A call of ILI9341Rotate with the orientation the    *)
(* driver had at an earlier point, after any calls with other orientations *)
(* in between, leaves width, height and orientation, and the memory-access *)
(* control byte last sent, as they were at that point: the result of the   *)
(* call depends on its argument only.                                      *)
(***************************************************************************)
\* the orientation state after the first n calls (n = 0: after ILI9341Init)
StateAfter(n) ==
    IF n = 0
    THEN [orient |-> [width |-> ILI9341_WIDTH, height |-> ILI9341_HEIGHT,
                      orientation |-> "ILI9341_Portrait_1"],
          mac |-> 72]
    ELSE [orient |-> calls[n].after, mac |-> calls[n].mac]

C8_RotateRoundTrip ==
    /\ lcd_orientation = StateAfter(Len(calls)).orient
    /\ mac = StateAfter(Len(calls)).mac
    /\ \A i \in 0..Len(calls), j \in 1..Len(calls) :
          (i < j /\ calls[j].op = "ILI9341Rotate"
                 /\ calls[j].args[1] = StateAfter(i).orient.orientation)
              => StateAfter(j) = StateAfter(i)

\* the four orientations, ending in a landscape one, and back to the initial one
C8_Witness ==
    /\ Len(calls) = 5
    /\ {calls[i].args[1] : i \in 1..4} = Orientations
    /\ calls[4].args[1] = "ILI9341_Landscape_2"
    /\ calls[5].args[1] = "ILI9341_Portrait_1"
    /\ lcd_orientation.width = ILI9341_WIDTH
    /\ mac = 72

(***************************************************************************)
(* C9  One call of ILI9341DrawChar with a font of width w and height h     *)
(* sends w*h*2 bytes of pixel data after the memory-write command, as full *)
(* transfers of MAX_VALUE_SIZE bytes followed by one last transfer that is *)
(* not empty; a 16x26 glyph goes out as 256, 256, 256 and 64 bytes.        *)
(***************************************************************************)
C9_CharByteCount ==
    Called("ILI9341DrawChar") =>
        LET font == LastCall.args[4]
            total == font.FontWidth * font.FontHeight * 2
            lens == ChunkLens(wire)
        IN  /\ MemWrites(wire) = {5}
            /\ \A i \in 6..Len(wire) : IsData(wire[i])
            /\ SumSeq(lens) = total
            /\ Len(lens) = (total + MAX_VALUE_SIZE - 1) \div MAX_VALUE_SIZE
            /\ \A i \in 1..(Len(lens) - 1) : lens[i] = MAX_VALUE_SIZE
            /\ lens[Len(lens)] \in 1..MAX_VALUE_SIZE
            /\ (font.FontWidth = 16 /\ font.FontHeight = 26) => lens = <<256, 256, 256, 64>>

C9_Witness ==
    /\ Called("ILI9341DrawChar")
    /\ LastCall.args[4] = [FontWidth |-> 16, FontHeight |-> 26]
    /\ ChunkLens(wire) = <<256, 256, 256, 64>>

(***************************************************************************)
(* C10  Under SeqSpec.  In the wire of any sequence of drawing calls,      *)
(* every memory-write command comes directly after a column address        *)
(* command with four data bytes and a page address command with four data  *)
(* bytes, and every data transfer that does not directly follow its own    *)
(* command comes after a memory-write command with no other command in     *)
(* between.                                                                *)
(***************************************************************************)
\* the command in force at transfer i: the last command sent before it
Governing(w, i) ==
    LET before == {c \in 1..(i - 1) : w[c].dc = 0}
    IN  IF before = {} THEN 0 ELSE CHOOSE c \in before : \A d \in before : d <= c

C10_WindowBeforeWrite ==
    /\ \A i \in MemWrites(wire) : (i - 4) \in WindowStarts(wire)
    /\ \A i \in 1..Len(wire) :
          (IsData(wire[i]) /\ (i = 1 \/ IsData(wire[IF i = 1 THEN 1 ELSE i - 1]))) =>
              /\ Governing(wire, i) # 0
              /\ IsCmd(wire[Governing(wire, i)], MEM_WRITE)

\* a glyph in two transfers, a fill in two transfers and a picture
C10_Witness ==
    /\ Len(calls) = 3
    /\ calls[1].op = "ILI9341DrawChar" /\ calls[1].sent = 7
    /\ calls[2].op = "ILI9341DrawFilledRectangle" /\ calls[2].sent = 7
    /\ calls[3].op = "ILI9341DrawPicture"
    /\ Cardinality(MemWrites(wire)) = 3

(***************************************************************************)
(* C11  Under RunSpec.  ILI9341Init performs its steps in this order:      *)
(* reset pin low, reset pin high, the 20 configuration commands in table   *)
(* order, each command byte followed by its payload, the sleep-out         *)
(* command, the display-on command, backlight on, and only then the        *)
(* window, memory-write command and pixel data of the screen fill; no      *)
(* memory write precedes display-on and the backlight is not switched on   *)
(* before display-on.  Unless an SPI transaction or the bus set-up fails,  *)
(* ILI9341Init reaches its end.                                            *)
(***************************************************************************)
\* the commands of ILI9341Init up to display-on, in the order of the table
InitCommands ==
    << PWR_CTRL_A, PWR_CTRL_B, DRIV_TIM_CTRL_A, DRIV_TIM_CTRL_B, PWR_ON_CTRL,
       PUMP_RATIO_CTRL, PWR_CTRL1, PWR_CTRL2, VCOM_CTRL1, VCOM_CTRL2, MEM_ACC_CTRL,
       PIXEL_FORMAT_SET, FRAME_CTRL, DISP_FUN_CTRL, EN_3_GAMMA, COLUMN_ADDR_SET,
       PAGE_ADDR_SET, GAMMA_SET, POS_GAMMA, NEG_GAMMA, SLEEP_OUT, DISPLAY_ON >>

\* the positions in w of its command transfers, in increasing order
RECURSIVE CommandsFrom(_, _)
CommandsFrom(w, i) ==
    IF i > Len(w) THEN << >>
    ELSE (IF w[i].dc = 0 THEN <<i>> ELSE << >>) \o CommandsFrom(w, i + 1)

\* only the first transfers matter to the order of ILI9341Init
InitPart(w) == SubSeq(w, 1, Min(Len(w), 3 * Len(InitCommands)))

DisplayOnAt(w) == {i \in 1..Len(w) : IsCmd(w[i], DISPLAY_ON)}

InitReturned == IF calls = << >> THEN FALSE ELSE calls[1].op = "ILI9341Init"

C11_Order ==
    LET w == InitPart(wire)
        at == CommandsFrom(w, 1)
        n == Min(Len(at), Len(InitCommands))
    IN  \* the commands, in order
        /\ \A i \in 1..n : w[at[i]].bytes = <<InitCommands[i]>>
        \* each command of the table is followed by its payload, and by nothing else
        /\ \A i \in 1..Min(n, Len(lcd_init)) :
              /\ at[i] = (IF i = 1 THEN 1 ELSE at[i - 1] + 2)
              /\ at[i] < Len(w) => w[at[i] + 1] = DataTransfer(lcd_init[i].data)
              /\ Len(lcd_init[i].data) = lcd_init[i].databytes
        \* sleep out and display on carry no payload
        /\ \A i \in (Len(lcd_init) + 1)..n : at[i] = at[i - 1] + (IF i = Len(lcd_init) + 1 THEN 2 ELSE 1)
        \* the reset pulse comes before the first transfer
        /\ Len(wire) > 0 =>
              /\ Len(gpio) >= 2
              /\ gpio[1] = [pin |-> "ILI9341_PIN_NUM_RST", level |-> "0", at |-> 0]
              /\ gpio[2] = [pin |-> "ILI9341_PIN_NUM_RST", level |-> "1", at |-> 0]
        /\ \A i \in 1..Len(gpio) : i <= 2 <=> gpio[i].pin = "ILI9341_PIN_NUM_RST"
        \* the backlight is switched on directly after display-on
        /\ Len(gpio) >= 3 =>
              /\ gpio[3].pin = "ILI9341_PIN_NUM_BCKL"
              /\ gpio[3].level = "ILI9341_BK_LIGHT_ON_LEVEL"
              /\ gpio[3].at = Len(InitCommands) + Len(lcd_init)
              /\ IsCmd(wire[gpio[3].at], DISPLAY_ON)
        \* nothing of the fill is sent before display-on and backlight
        /\ \A i \in MemWrites(wire) : \E j \in DisplayOnAt(wire) : j < i
        /\ Len(wire) > Len(InitCommands) + Len(lcd_init) => Len(gpio) >= 3
        \* the fill: window, memory write, pixel data
        /\ Len(wire) >= Len(InitCommands) + Len(lcd_init) + 5 =>
              /\ (Len(InitCommands) + Len(lcd_init) + 1) \in WindowStarts(wire)
              /\ IsCmd(wire[Len(InitCommands) + Len(lcd_init) + 5], MEM_WRITE)
        /\ InitReturned =>
              /\ calls[1].sent > Len(InitCommands) + Len(lcd_init) + 5
              /\ \A i \in (Len(InitCommands) + Len(lcd_init) + 6)..calls[1].sent :
                    IsData(wire[i])

InitRunning == running.op = "ILI9341Init"

C11_InitOrder == [](C11_Order) /\ (InitRunning ~> (InitReturned \/ halted))

\* ILI9341Init has sent the 42 transfers of configuration in order, has
\* switched the backlight on and is filling the panel: the window, the
\* memory-write command and the first two transfers of black pixels are out
C11_Witness ==
    /\ InitRunning
    /\ ~halted
    /\ calls = << >>
    /\ Len(gpio) = 3
    /\ Len(wire) = Len(InitCommands) + Len(lcd_init) + 7
    /\ IsCmd(wire[Len(wire) - 2], MEM_WRITE)
    /\ wire[Len(wire)] = DataTransfer([n \in 1..MAX_VALUE_SIZE |-> 0])
    /\ wire[Len(wire) - 1] = wire[Len(wire)]
    /\ todo # << >>

(***************************************************************************)
(* C12  For endpoints anywhere in the 16-bit range and every orientation,  *)
(* every window corner and every pixel that ILI9341DrawLine addresses lies *)
(* in columns 0..width-1 and rows 0..height-1 of the current orientation;  *)
(* a coordinate that is not below the dimension is replaced by the         *)
(* dimension less one, and a coordinate in range is used as given.         *)
(***************************************************************************)
\* the coordinate the claim lets the line use for the argument v
Clamped(v, dim) == IF v >= dim THEN dim - 1 ELSE v

\* the windows in w, in the order they are sent: <<xa, xb, ya, yb>>
WindowAt(w, i) ==
    << Word(w[i + 1].bytes, 1), Word(w[i + 1].bytes, 3),
       Word(w[i + 3].bytes, 1), Word(w[i + 3].bytes, 3) >>

LastWindow(w) == CHOOSE i \in WindowStarts(w) : \A j \in WindowStarts(w) : j <= i

C12_LineClamped ==
    Called("ILI9341DrawLine") =>
        LET a == LastCall.args
            cx0 == Clamped(a[1], lcd_orientation.width)
            cy0 == Clamped(a[2], lcd_orientation.height)
            cx1 == Clamped(a[3], lcd_orientation.width)
            cy1 == Clamped(a[4], lcd_orientation.height)
        IN  \* every address sent is the corner of a window inside the panel
            /\ {i \in 1..Len(wire) : IsCmd(wire[i], COLUMN_ADDR_SET)} = WindowStarts(wire)
            /\ {i \in 1..Len(wire) : IsCmd(wire[i], PAGE_ADDR_SET)}
                   = {i + 2 : i \in WindowStarts(wire)}
            /\ \A i \in WindowStarts(wire) :
                  /\ InPanel(WindowAt(wire, i)[1], WindowAt(wire, i)[3])
                  /\ InPanel(WindowAt(wire, i)[2], WindowAt(wire, i)[4])
            /\ \A p \in Painted(wire) : InPanel(p[1], p[2])
            \* the line runs between the replaced endpoints
            /\ \A p \in Painted(wire) :
                  /\ p[1] \in Min(cx0, cx1)..Max(cx0, cx1)
                  /\ p[2] \in Min(cy0, cy1)..Max(cy0, cy1)
            /\ IF cx0 = cx1 \/ cy0 = cy1
               THEN /\ WindowStarts(wire) = {1}
                    /\ WindowAt(wire, 1)
                          = <<Min(cx0, cx1), Max(cx0, cx1), Min(cy0, cy1), Max(cy0, cy1)>>
               ELSE /\ WindowAt(wire, 1) = <<cx0, cx0, cy0, cy0>>
                    /\ \/ WindowAt(wire, LastWindow(wire))[1] = cx1
                       \/ WindowAt(wire, LastWindow(wire))[3] = cy1

\* in landscape position, a line from beyond the right edge to beyond the
\* bottom edge
C12_Witness ==
    /\ Called("ILI9341DrawLine")
    /\ lcd_orientation.orientation = "ILI9341_Landscape_2"
    /\ LastCall.args[1] = 65535 /\ LastCall.args[2] = 238
    /\ LastCall.args[3] = 238 /\ LastCall.args[4] = 320
    /\ WindowAt(wire, 1) = <<319, 319, 238, 238>>
    /\ <<318, 238>> \in Painted(wire)
    /\ WindowAt(wire, LastWindow(wire))[3] = 239

(***************************************************************************)
(* C13  Under RunSpec.  When an SPI transaction of the driver, command or  *)
(* data, returns an error, the program halts there: the transaction is not *)
(* tried again, nothing more is sent or written to a pin, and no driver    *)
(* call returns.                                                           *)
(***************************************************************************)
C13_FailureHalts ==
    /\ [](errors # << >> => (halted /\ Len(errors) = 1))
    /\ [][errors # << >> =>
             (wire' = wire /\ gpio' = gpio /\ calls' = calls /\ running' = running
              /\ errors' = errors /\ halted')]_vars

\* the second transfer of pixels of the fill that ends ILI9341Init fails
\* after the first one went out: the routine never returns
C13_Witness ==
    /\ halted
    /\ Len(errors) = 1
    /\ running.op = "ILI9341Init"
    /\ calls = << >>
    /\ Len(wire) = Len(InitCommands) + Len(lcd_init) + 6
    /\ Len(wire[Len(wire)].bytes) = MAX_VALUE_SIZE
    /\ errors[1] = DataTransfer([n \in 1..MAX_VALUE_SIZE |-> 0])
    /\ todo # << >>

(***************************************************************************)
(* C14  Under AppSpec.  No task makes a drawing call or another blocking   *)
(* call (task delay, event-group wait, take of a mutex) while it holds     *)
(* semDecimas or semParciales: a task that is about to enter or is inside  *)
(* a display-driver call, or is at a delay, at the event wait or at a      *)
(* take, holds neither mutex.                                              *)
(***************************************************************************)
\* labels of the calls into the display driver, before and inside the call
DriverCallLabels == {"L252", "L253", "L263", "L117", "L156"}
InDriverLabels == {"in_L252", "in_L253", "in_L263", "in_L117", "in_L161"}
\* labels of xSemaphoreTake, of xEventGroupWaitBits and of the task delays
\* (LedStatusTask and ButtonEvents_Task are at their delay between iterations)
TakeLabels == {"L68", "L92", "L104", "L138", "L146", "L200"}
WaitLabels == {"L178"}
DelayLabels == {"L75", "L165", "L222", "L27"}
BlockingLabels == DriverCallLabels \cup InDriverLabels \cup TakeLabels \cup WaitLabels \cup DelayLabels

C14_NoMutexAcrossBlocking ==
    \A t \in Tasks : pc[t] \in BlockingLabels => Held(t) = {}

\* displayTask is inside the drawing of the digits of a time it has read
\* under semDecimas, and meanwhile decimasTask holds that mutex
C14_Witness ==
    /\ pc["displayTask"] = "in_L117"
    /\ display.total # U32Zero
    /\ sem.semDecimas = "decimasTask"
    /\ sem.semParciales = "free"

(***************************************************************************)
(* C15  Under AppSpec.  Every read and every update of decimas and of      *)
(* botonesEstado by decimasTask, displayTask, toggleTask and LedStatusTask *)
(* is performed while the accessing task holds a mutex guarding the data:  *)
(* a task at a statement that reads or writes decimas holds semDecimas,    *)
(* and a task at a statement that reads or writes botonesEstado holds a    *)
(* mutex.                                                                  *)
(***************************************************************************)
\* statements that read or write decimas: lines 70/72, 106, 145, 201
DecimasAccess ==
    [decimasTask |-> {"L70"}, displayTask |-> {"L105", "L145"}, toggleTask |-> {"L201"},
     LedStatusTask |-> {}]
\* statements that read or write botonesEstado: lines 69/71, 87, 91, 105,
\* 191, 193, 205, 222-228
BotonesAccess ==
    [decimasTask |-> {"L69"}, displayTask |-> {"L87", "L91", "L105"},
     toggleTask |-> {"L191", "L193", "L205"}, LedStatusTask |-> {"L222"}]

C15_GuardedAccess ==
    \A t \in DOMAIN DecimasAccess :
        /\ pc[t] \in DecimasAccess[t] => sem.semDecimas = t
        /\ pc[t] \in BotonesAccess[t] => Held(t) # {}

(***************************************************************************)
(* C16  Under AppSpec.  At most one task is inside a display-driver        *)
(* drawing call: app_main has finished its drawing (init, rotate, panels)  *)
(* before any task exists, and afterwards only displayTask is ever inside  *)
(* the driver.                                                             *)
(***************************************************************************)
InDriver(t) == pc[t] \in InDriverLabels
\* app_main has not yet returned from CrearPanel (line 274)
MainDrawing == pc["app_main"] \in {"L252", "in_L252", "L253", "in_L253", "L256", "L263", "in_L263"}

C16_OneDrawer ==
    /\ Cardinality({t \in Tasks : InDriver(t)}) <= 1
    /\ MainDrawing => \A t \in Tasks \ {"app_main"} : pc[t] = "not_created"
    /\ \A t \in Tasks \ {"app_main", "displayTask"} : ~InDriver(t)

\* displayTask is drawing the lap times while every other task exists and
\* app_main is gone
C16_Witness ==
    /\ InDriver("displayTask")
    /\ pc["displayTask"] = "in_L161"
    /\ pc["app_main"] = "deleted"
    /\ \A t \in Tasks \ {"app_main"} : pc[t] # "not_created"

(***************************************************************************)
(* C17  The claim as stated: decimasTask changes decimas only while the    *)
(* stopwatch is started.  An iteration that finds arrancar = 0 and the     *)
(* reset condition false leaves decimas unchanged, an iteration that finds *)
(* arrancar non-zero makes decimas greater by exactly 1, and no step of    *)
(* decimasTask makes decimas smaller except by setting it to 0 on reset.   *)
(***************************************************************************)
U32Less(a, b) == a.hi < b.hi \/ (a.hi = b.hi /\ a.lo < b.lo)
DecimasActs == pc'["decimasTask"] # pc["decimasTask"]

\* the branch an iteration takes is the one the values of botonesEstado it
\* reads call for
C17_Branch ==
    (DecimasActs /\ At("decimasTask", "L69")) =>
        /\ botonesEstado.arrancar # 0 => counting'.update = "increment"
        /\ (botonesEstado.arrancar = 0 /\ botonesEstado.reset = 0) => counting'.update = "none"

C17_CountsWhileStarted ==
    [][/\ C17_Branch
       /\ DecimasActs =>
            /\ ~At("decimasTask", "L70") => decimas' = decimas
            /\ (At("decimasTask", "L70") /\ counting.update = "none") => decimas' = decimas
            /\ (At("decimasTask", "L70") /\ counting.update = "increment") =>
                    (decimas' = U32Inc(decimas) /\ U32Less(decimas, decimas'))
            /\ U32Less(decimas', decimas) => (counting.update = "zero" /\ decimas' = U32Zero)]_vars

(***************************************************************************)
(* C17  Under LongRunSpec, amended.  As above, with the increment taken    *)
(* in the counter's type: an iteration that finds arrancar non-zero makes  *)
(* decimas greater by exactly 1 modulo 2^32, so at 2^32 - 1 the increment  *)
(* takes decimas to 0; otherwise no step of decimasTask makes decimas      *)
(* smaller except by setting it to 0 on reset.                             *)
(***************************************************************************)
C17_CountsModulo ==
    [][/\ C17_Branch
       /\ DecimasActs =>
            /\ ~At("decimasTask", "L70") => decimas' = decimas
            /\ (At("decimasTask", "L70") /\ counting.update = "none") => decimas' = decimas
            /\ (At("decimasTask", "L70") /\ counting.update = "increment") =>
                    decimas' = U32Inc(decimas)
            /\ U32Less(decimas', decimas) =>
                    \/ counting.update = "zero" /\ decimas' = U32Zero
                    \/ counting.update = "increment" /\ decimas = U32Max /\ decimas' = U32Zero]_vars

\* the second increment of the run has taken decimas from 2^32 - 1 to 0,
\* with the stopwatch started and no reset made
C17_Witness ==
    /\ At("decimasTask", "L73")
    /\ counting = [update |-> "increment", ticks |-> 2]
    /\ decimas = U32Zero
    /\ botonesEstado.arrancar = 1
    /\ toggle.PB2State = 1

(***************************************************************************)
(* C18  WriteLCD issues a command transfer (data/command line low, the one *)
(* opcode byte) if and only if the opcode is not 0, and a data transfer    *)
(* (data/command line high, the first databytes bytes of the payload) if   *)
(* and only if databytes is not 0, the command transfer first; it issues   *)
(* nothing else.                                                           *)
(***************************************************************************)
C18_WriteLCD ==
    Called("WriteLCD") =>
        LET rec == LastCall.args[1]
            cmds == {i \in 1..Len(wire) : wire[i].dc = 0}
            datas == {i \in 1..Len(wire) : wire[i].dc = 1}
        IN  /\ Cardinality(cmds) = (IF rec.cmd # 0 THEN 1 ELSE 0)
            /\ Cardinality(datas) = (IF rec.databytes # 0 THEN 1 ELSE 0)
            /\ \A i \in cmds : wire[i].bytes = <<rec.cmd>>
            /\ \A i \in datas : wire[i].bytes = SubSeq(rec.data, 1, rec.databytes)
            /\ \A i \in cmds, j \in datas : i < j

\* a record with opcode 0 and four bytes of payload: the payload alone is sent
C18_Witness ==
    /\ Called("WriteLCD")
    /\ LastCall.args[1].cmd = SEND_PIXELS
    /\ LastCall.args[1].databytes = 4
    /\ wire = << [dc |-> 1, bytes |-> WriteData] >>

(***************************************************************************)
(* C19  For endpoints that differ in both coordinates after clamping, the  *)
(* loop of ILI9341DrawLine terminates: it draws a finite run of single     *)
(* pixels that starts at the clamped start point; from each pixel to the   *)
(* next the point moves by one step toward the end point on at least one   *)
(* axis and by nothing else; every pixel lies in the closed ranges between *)
(* the start and end coordinates; and the last pixel is the first one      *)
(* whose x equals x1 or whose y equals y1.                                 *)
(***************************************************************************)
\* transfers per call of ILI9341DrawPixel
PixelStride == Len(ILI9341DrawPixel(0, 0, 0))
\* the k-th pixel drawn on w
PixelAt(w, k) ==
    << WindowAt(w, PixelStride * (k - 1) + 1)[1], WindowAt(w, PixelStride * (k - 1) + 1)[3] >>
Toward(from, to) == IF to > from THEN 1 ELSE IF to < from THEN -1 ELSE 0

CharWindow(w, k) ==
    WindowAt(w, CHOOSE i \in WindowStarts(w) :
                    Cardinality({j \in WindowStarts(w) : j <= i}) = k)

C20_WrapMovesCursor ==
    Called("ILI9341DrawString") =>
        LET a == LastCall.args
            font == a[4]
            n == Len(Text(a[3]))
            \* the first character that does not fit in the line
            wrapped == {k \in 1..n : a[1] + k * font.FontWidth > lcd_orientation.width}
        IN  \A k \in wrapped :
                (k - 1 \notin wrapped /\ \A i \in 1..n : IsPrintable(a[3][i])) =>
                    /\ CharWindow(wire, k) =
                          <<0, font.FontWidth - 1,
                            a[2] + font.FontHeight, a[2] + 2 * font.FontHeight - 1>>
                    /\ k < n =>
                          CharWindow(wire, k + 1) =
                              <<font.FontWidth, 2 * font.FontWidth - 1,
                                a[2] + font.FontHeight, a[2] + 2 * font.FontHeight - 1>>

(***************************************************************************)
(* C21  In ILI9341DrawString, for a string in which every line break is    *)
(* followed by a printable character: a '\n' makes the next character be   *)
(* drawn at y advanced by glyph_height + 1 and at the x the string started *)
(* at; a '\n' followed by '\r' makes it be drawn at y advanced by          *)
(* glyph_height + 1 and x = 0; a lone '\r' is skipped without moving the   *)
(* cursor; each printable character advances x by glyph_width.  The        *)
(* positions are those passed to ILI9341DrawChar, and the windows on the   *)
(* wire are at these positions for every character that fits in the line.  *)
(***************************************************************************)
\* every '\n', '\n' '\r' and lone '\r' of t is followed by a printable character
LineBreaksLead(t) ==
    \A i \in 1..Len(t) :
        /\ t[i] = 10 =>
              /\ i < Len(t)
              /\ IsPrintable(t[i + 1]) \/ t[i + 1] = 13
        /\ t[i] = 13 => (i < Len(t) /\ IsPrintable(t[i + 1]))
        /\ IsPrintable(t[i]) \/ t[i] \in {10, 13}

\* the characters of t from position i on with the positions the claim gives
\* them, the cursor being at (cx, cy) and the string having started at x
RECURSIVE Positions(_, _, _, _, _, _)
Positions(i, cx, cy, x, t, font) ==
    IF i > Len(t) THEN << >>
    ELSE IF t[i] = 10 /\ i < Len(t) /\ t[i + 1] = 13
    THEN Positions(i + 2, 0, cy + font.FontHeight + 1, x, t, font)
    ELSE IF t[i] = 10 THEN Positions(i + 1, x, cy + font.FontHeight + 1, x, t, font)
    ELSE IF t[i] = 13 THEN Positions(i + 1, cx, cy, x, t, font)
    ELSE << <<cx, cy, t[i]>> >> \o Positions(i + 1, cx + font.FontWidth, cy, x, t, font)

C22_PrintableOnly ==
    Called("ILI9341DrawString") =>
        /\ \A k \in 1..Len(LastCall.drawn) : IsPrintable(LastCall.drawn[k][3])
        /\ LastCall.read <= NulAt(LastCall.args[3])

(***************************************************************************)
(* C23  Under RotSpec.  After any sequence of ILI9341Rotate calls from the *)
(* initialised driver, the stored width and height are 240 x 320 in the    *)
(* two portrait orientations and 320 x 240 in the two landscape ones, and  *)
(* the memory-access-control byte last sent is 0x48, 0x88, 0x28, 0xE8 for  *)
(* Portrait_1, Portrait_2, Landscape_1, Landscape_2.                       *)
(***************************************************************************)
C23_Size(o) ==
    IF o \in {"ILI9341_Portrait_1", "ILI9341_Portrait_2"} THEN <<240, 320>> ELSE <<320, 240>>

C23_Byte(o) ==
    CASE o = "ILI9341_Portrait_1" -> 4 * 16 + 8
      [] o = "ILI9341_Portrait_2" -> 8 * 16 + 8
      [] o = "ILI9341_Landscape_1" -> 2 * 16 + 8
      [] o = "ILI9341_Landscape_2" -> 14 * 16 + 8

C23_OrientationState ==
    /\ lcd_orientation.orientation \in Orientations
    /\ <<lcd_orientation.width, lcd_orientation.height>> = C23_Size(lcd_orientation.orientation)
    /\ mac = C23_Byte(lcd_orientation.orientation)
    /\ calls # << >> =>
          /\ lcd_orientation.orientation = LastCall.args[1]
          /\ SubSeq(wire, Len(wire) - 1, Len(wire))
                = << CmdTransfer(MEM_ACC_CTRL),
                     DataTransfer(<<C23_Byte(lcd_orientation.orientation)>>) >>

\* landscape, portrait, landscape: the last call finds the native size stored
C23_Witness ==
    /\ Len(calls) = 3
    /\ calls[1].args[1] = "ILI9341_Landscape_1"
    /\ calls[2].args[1] = "ILI9341_Portrait_2"
    /\ calls[3].args[1] = "ILI9341_Landscape_2"
    /\ lcd_orientation = [width |-> 320, height |-> 240, orientation |-> "ILI9341_Landscape_2"]
    /\ wire[Len(wire)] = DataTransfer(<<232>>)

(***************************************************************************)
(* C24  Under StepSpec.  No step of Fill, ILI9341Fill, ILI9341DrawPixel,   *)
(* ILI9341DrawLine, the rectangle and circle routines, ILI9341DrawChar,    *)
(* ILI9341DrawString, ILI9341GetStringSize or ILI9341DrawPicture changes   *)
(* the stored width, height or orientation, and none of them sends the     *)
(* memory-access-control command: only ILI9341Rotate does.                 *)
(***************************************************************************)
C24_Routines ==
    {"Fill", "ILI9341Fill", "ILI9341DrawPixel", "ILI9341DrawLine", "ILI9341DrawRectangle",
     "ILI9341DrawFilledRectangle", "ILI9341DrawCircle", "ILI9341DrawFilledCircle",
     "ILI9341DrawChar", "ILI9341DrawString", "ILI9341GetStringSize", "ILI9341DrawPicture"}

\* the step enters, executes or leaves one of these routines
C24_StepOf ==
    IF running = Idle THEN running'.op \in C24_Routines ELSE running.op \in C24_Routines

C24_FrameStep ==
    C24_StepOf =>
        /\ lcd_orientation' = lcd_orientation
        /\ mac' = mac
        /\ \A i \in 1..Len(wire') : ~IsCmd(wire'[i], MEM_ACC_CTRL)

C24_OnlyRotateTurns == [][C24_FrameStep]_vars

\* after a rotation, a pixel whose colour has the low byte 0x36 has been sent
\* as data; the state is still the one the rotation left
C24_Witness ==
    /\ Len(calls) = 2
    /\ calls[1].op = "ILI9341Rotate" /\ calls[1].args[1] = "ILI9341_Landscape_2"
    /\ calls[2].op = "ILI9341DrawPixel"
    /\ wire[Len(wire)] = DataTransfer(<<0, MEM_ACC_CTRL>>)
    /\ lcd_orientation = calls[1].after
    /\ lcd_orientation.width = 320
    /\ mac = 232

(***************************************************************************)
(* C25  For every glyph width 1..16 and every height, ILI9341DrawChar      *)
(* stores pixel bytes only at indices 0..255 of its buffer; the buffer is  *)
(* handed to WriteLCD inside the loop only when all its 256 bytes have     *)
(* been stored since it was last handed over; no byte is stored twice      *)
(* before it is sent; and the chunks sent, one after the other, are the    *)
(* pixels of the glyph row by row, two bytes (high, low) per pixel.        *)
(***************************************************************************)
\* the bytes stored in one period between two hand-overs: both bytes of each
\* pixel stored
C25_Stored(since) == UNION {{since[n], since[n] + 1} : n \in 1..Len(since)}

\* the colour of the n-th pixel (from 0) of the glyph of character data
C25_Colour(a, n) ==
    LET font == a[4]
        char_row == FontData(font, (a[3] - 32) * font.FontHeight + n \div font.FontWidth)
    IN  IF RowBit(char_row, n % font.FontWidth) THEN a[5] ELSE a[6]

C25_Glyph(a) ==
    [m \in 1..(a[4].FontWidth * a[4].FontHeight * 2) |->
        IF m % 2 = 1 THEN HighByte(C25_Colour(a, (m - 1) \div 2))
                     ELSE LowByte(C25_Colour(a, (m - 1) \div 2))]

C25_BufferUse ==
    Called("ILI9341DrawChar") =>
        LET log == LastCall.log
            sent == PixelTransfers(wire)
        IN  /\ Len(log) = Len(sent)
            /\ \A c \in 1..Len(log) :
                  /\ C25_Stored(log[c]) \subseteq 0..(MAX_VALUE_SIZE - 1)
                  /\ \A m, n \in 1..Len(log[c]) : m # n => log[c][m] # log[c][n]
                  /\ C25_Stored(log[c]) = 0..(Len(sent[c].bytes) - 1)
                  /\ c < Len(log) => Cardinality(C25_Stored(log[c])) = MAX_VALUE_SIZE
            /\ PixelStream(wire) = C25_Glyph(LastCall.args)

\* a glyph 15 pixels wide: its rows straddle the ends of the three full chunks
C25_Witness ==
    /\ Called("ILI9341DrawChar")
    /\ LastCall.args[4] = [FontWidth |-> 15, FontHeight |-> 26]
    /\ Len(LastCall.log) = 4
    /\ LastCall.log[1][128] = 254
    /\ LastCall.log[4] = <<0, 2, 4, 6, 8, 10>>
    /\ Len(wire[Len(wire)].bytes) = 12

(***************************************************************************)
(* C26  For every glyph width 1..16, ILI9341DrawChar sends the foreground  *)
(* colour for the pixel at column col of row i exactly when bit 15 - col   *)
(* of the row's 16-bit mask is set (the columns are the bits of the mask   *)
(* taken from the most significant one), and the background colour         *)
(* otherwise; the mask of row i of character c is the font entry at index  *)
(* (c - ' ') * glyph_height + i.                                           *)
(***************************************************************************)
C26_Bit(mask, b) == (mask \div (2 ^ b)) % 2 = 1

\* the colour sent for the pixel at row i, column col of the glyph
C26_Sent(i, col) ==
    Word(PixelStream(wire), 2 * (i * LastCall.args[4].FontWidth + col) + 1)

C26_Mask(i) ==
    FontData(LastCall.args[4], (LastCall.args[3] - 32) * LastCall.args[4].FontHeight + i)

\* the columns read the mask from bit b0 downward
C26_ReadsFrom(b0) ==
    \A i \in 0..(LastCall.args[4].FontHeight - 1), col \in 0..(LastCall.args[4].FontWidth - 1) :
        C26_Sent(i, col) = IF C26_Bit(C26_Mask(i), b0 - col) THEN LastCall.args[5]
                                                             ELSE LastCall.args[6]

C26_BitFromTop == Called("ILI9341DrawChar") => C26_ReadsFrom(15)

\* the statement with bit glyph_width - 1 - col
C26_BitFromWidth ==
    Called("ILI9341DrawChar") => C26_ReadsFrom(LastCall.args[4].FontWidth - 1)

\* a glyph 7 wide: in row 0 of 'A' bit 15 is set and bit 6 is not, and the
\* pixel of column 0 is sent in the foreground colour
C26_Witness ==
    /\ Called("ILI9341DrawChar")
    /\ LastCall.args[3] = 65
    /\ LastCall.args[4] = [FontWidth |-> 7, FontHeight |-> 10]
    /\ C26_Bit(C26_Mask(0), 15) /\ ~C26_Bit(C26_Mask(0), 6)
    /\ C26_Sent(0, 0) = LastCall.args[5]
    /\ LastCall.args[5] # LastCall.args[6]

(***************************************************************************)
(* C27  Under AppSpec.  Every start/stop event that toggleTask consumes    *)
(* takes it through lines 190-193: arrancar is replaced by its negation,   *)
(* and the assignment that follows leaves congelar = 1 exactly when        *)
(* arrancar = 0; none of the steps of this branch changes decimas.         *)
(***************************************************************************)
C27_From(label) == pc["toggleTask"] = label /\ pc'["toggleTask"] # label

C27_StartStopStep ==
    /\ (C27_From("L178") /\ EV_BIT_START_STOP \in xButtonEventGroup) =>
          /\ pc'["toggleTask"] = "L191"
          /\ EV_BIT_START_STOP \notin xButtonEventGroup'
          /\ botonesEstado' = botonesEstado
          /\ decimas' = decimas
    /\ (C27_From("L178") /\ EV_BIT_START_STOP \notin xButtonEventGroup) =>
          /\ pc'["toggleTask"] # "L191"
          /\ botonesEstado' = botonesEstado
    /\ C27_From("L191") =>
          /\ pc'["toggleTask"] = "L193"
          /\ botonesEstado'.arrancar = (IF botonesEstado.arrancar = 0 THEN 1 ELSE 0)
          /\ botonesEstado'.congelar = botonesEstado.congelar
          /\ decimas' = decimas
    /\ C27_From("L193") =>
          /\ botonesEstado'.arrancar = botonesEstado.arrancar
          /\ botonesEstado'.congelar = 1 <=> botonesEstado'.arrancar = 0
          /\ botonesEstado'.congelar \in {0, 1}
          /\ decimas' = decimas
    \* no other task writes the two flags while the branch is executed
    /\ (pc["toggleTask"] \in {"L191", "L193"} /\ pc'["toggleTask"] = pc["toggleTask"]) =>
          botonesEstado' = botonesEstado

C27_StartStop == [][C27_StartStopStep]_vars

\* the second start/stop event has been handled: the stopwatch, started by
\* the first and having counted, is stopped and frozen on its count
C27_Witness ==
    /\ At("toggleTask", "L178")
    /\ toggle.bits = {EV_BIT_START_STOP}
    /\ toggle.PB1State = 1
    /\ env.presses = 2
    /\ botonesEstado.arrancar = 0
    /\ botonesEstado.congelar = 1
    /\ decimas = [hi |-> 0, lo |-> 1]

(***************************************************************************)
(* C28  Under FairSpec.  Every reset event set in the event group is       *)
(* eventually consumed by toggleTask, which then sets decimas to 0 while   *)
(* it holds semDecimas and clears congelar, leaving arrancar as it was;    *)
(* if the stopwatch is stopped, decimas stays 0 for as long as it stays    *)
(* stopped, that is until the next start event is handled.                 *)
(***************************************************************************)
C28_Pending == EV_BIT_RESET \in xButtonEventGroup

\* decimas has just been set to 0 by toggleTask, which holds the mutex
C28_Zeroed ==
    /\ At("toggleTask", "L202")
    /\ EV_BIT_RESET \in toggle.bits
    /\ sem["semDecimas"] = "toggleTask"
    /\ decimas = U32Zero

\* the iteration that consumed the event is over
C28_Handled ==
    /\ At("toggleTask", "L178")
    /\ EV_BIT_RESET \in toggle.bits
    /\ botonesEstado.congelar = 0

\* the stopwatch is stopped at 0 and decimasTask is not about to count
C28_AtRest ==
    /\ botonesEstado.arrancar = 0
    /\ decimas = U32Zero
    /\ ~(At("decimasTask", "L70") /\ counting.update = "increment")

C28_ResetStep ==
    /\ (C27_From("L178") /\ C28_Pending) =>
          /\ EV_BIT_RESET \in toggle'.bits
          /\ ~C28_Pending'
          /\ pc'["toggleTask"] = IF EV_BIT_START_STOP \in toggle'.bits THEN "L191" ELSE "L200"
    /\ (C27_From("L193") /\ EV_BIT_RESET \in toggle.bits) => pc'["toggleTask"] = "L200"
    /\ C27_From("L200") => pc'["toggleTask"] = "L201" /\ sem'["semDecimas"] = "toggleTask"
    /\ C27_From("L201") =>
          /\ sem["semDecimas"] = "toggleTask"
          /\ decimas' = U32Zero
          /\ botonesEstado' = botonesEstado
          /\ C28_Zeroed'
          /\ botonesEstado.arrancar = 0 => C28_AtRest'
    /\ C27_From("L202") => sem'["semDecimas"] = "free" /\ pc'["toggleTask"] = "L205"
    /\ C27_From("L205") =>
          /\ botonesEstado'.congelar = 0
          /\ botonesEstado'.arrancar = botonesEstado.arrancar
          /\ pc'["toggleTask"] = "L178"
    /\ (C28_AtRest /\ botonesEstado'.arrancar = 0) => C28_AtRest'

C28_ResetConsumed ==
    /\ C28_Pending ~> C28_Zeroed
    /\ C28_Pending ~> C28_Handled
    /\ [][C28_ResetStep]_vars

\* the reset button was pressed with the stopwatch stopped on 2^32 - 2: the
\* event has been handled and the stopwatch rests at 0, not frozen
C28_Witness ==
    /\ C28_Handled
    /\ toggle.bits = {EV_BIT_RESET}
    /\ toggle.PB2State = 0
    /\ env.presses = MaxPresses
    /\ C28_AtRest
    /\ display.total = U32Zero

(***************************************************************************)
(* C29  Under AppSpec.  In one polling iteration ButtonEvents_Task sets    *)
(* the bit of a button exactly when the level read for it is 0 and the     *)
(* level read in the previous iteration was 1: a button held low over      *)
(* several polls sets its bit once, a release sets nothing, and the edge   *)
(* of one button never sets the bit of another.  Nothing else sets bits.   *)
(***************************************************************************)
C29_Order == <<"BUTTON_PIN_START_STOP", "BUTTON_PIN_RESET", "BUTTON_PIN_FUNC">>
C29_Line == <<"L33", "L37", "L41">>
C29_BitOf == <<EV_BIT_START_STOP, EV_BIT_RESET, EV_BIT_FUNC_CHANGE>>

\* the buttons from the n-th on whose level went from 1 to 0 between the
\* previous poll and this one; prev and cur are the levels the task holds
C29_Edges(prev, cur, n) == {k \in n..3 : cur[C29_Order[k]] = 0 /\ prev[C29_Order[k]] = 1}

\* where the task goes next: to the call that sets the bit of the first such
\* button, or to the next poll
C29_Target(E) == IF E = {} THEN "L27" ELSE C29_Line[CHOOSE k \in E : \A j \in E : k <= j]

C29_PollStep ==
    /\ C27_From("L178") \/ pc'["ButtonEvents_Task"] = pc["ButtonEvents_Task"] =>
          xButtonEventGroup' \subseteq xButtonEventGroup
    /\ (At("ButtonEvents_Task", "L27") /\ button' # button) =>
          /\ button'.cur = env.level
          /\ xButtonEventGroup' = xButtonEventGroup
          /\ pc'["ButtonEvents_Task"] = C29_Target(C29_Edges(button.prev, env.level, 1))
          /\ button'.prev = IF C29_Edges(button.prev, env.level, 1) = {} THEN env.level
                            ELSE button.prev
    /\ \A n \in 1..3 :
          (At("ButtonEvents_Task", C29_Line[n]) /\ pc'["ButtonEvents_Task"] # C29_Line[n]) =>
              /\ n \in C29_Edges(button.prev, button.cur, 1)
              /\ xButtonEventGroup' = xButtonEventGroup \cup {C29_BitOf[n]}
              /\ button'.cur = button.cur
              /\ pc'["ButtonEvents_Task"] = C29_Target(C29_Edges(button.prev, button.cur, n + 1))
              /\ button'.prev = IF C29_Edges(button.prev, button.cur, n + 1) = {}
                                THEN button.cur ELSE button.prev

C29_FallingEdgeOnly == [][C29_PollStep]_vars

\* two buttons went low between two polls: the start/stop bit has been set,
\* the reset bit is about to be, the function bit will not be
C29_Witness ==
    /\ At("ButtonEvents_Task", "L37")
    /\ button.prev = [p \in ButtonPins |-> 1]
    /\ button.cur = [p \in ButtonPins |-> IF p = "BUTTON_PIN_FUNC" THEN 1 ELSE 0]
    /\ xButtonEventGroup = {EV_BIT_START_STOP}

(***************************************************************************)
(* C30  Under StepSpec.  ILI9341Fill addresses only pixels of the panel:   *)
(* its window is columns 0..width-1 and rows 0..height-1 of the current    *)
(* orientation, and it sends exactly width*height*2 bytes of pixel data.   *)
(***************************************************************************)
\* the bytes of pixel data the running routine has still to send
C30_ToSend ==
    SumSeq([i \in 1..Len(todo) |->
               IF todo[i].kind = "stream" THEN todo[i].arg.bytes_count
               ELSE IF todo[i].kind = "spi" /\ todo[i].arg.dc = 1 THEN Len(todo[i].arg.bytes)
               ELSE 0])

C30_WholePanel ==
    running.op = "ILI9341Fill" =>
        /\ Len(wire) >= 4 =>
              WindowAt(wire, 1) = <<0, lcd_orientation.width - 1,
                                    0, lcd_orientation.height - 1>>
        /\ Len(wire) >= 5 =>
              PixelBytes(wire) + C30_ToSend
                  = lcd_orientation.width * lcd_orientation.height * 2

(***************************************************************************)
(* C31  For every centre inside the panel and every radius r >= 0, also    *)
(* when the circle extends past the left or top edge, every pixel painted  *)
(* by ILI9341DrawFilledCircle lies in the bounding box of the circle:      *)
(* x0 - r <= x <= x0 + r and y0 - r <= y <= y0 + r.                        *)
(***************************************************************************)
C31_InBox(p, x0, y0, r) ==
    /\ x0 - r <= p[1] /\ p[1] <= x0 + r
    /\ y0 - r <= p[2] /\ p[2] <= y0 + r

C31_InsideBox ==
    Called("ILI9341DrawFilledCircle") =>
        LET x0 == LastCall.args[1]
            y0 == LastCall.args[2]
            r == LastCall.args[3]
        IN  InPanel(x0, y0) => \A p \in Painted(wire) : C31_InBox(p, x0, y0, r)

(***************************************************************************)
(* C32  For every circle that lies inside the panel, ILI9341DrawFilledCircle*)
(* paints every pixel that ILI9341DrawCircle paints for the same centre    *)
(* and radius, and in every row from y0 - r to y0 + r it paints a          *)
(* horizontal span centred on x0: no row is left unpainted.  Both loops    *)
(* terminate: the transfers of both routines are finite sequences.         *)
(***************************************************************************)
C32_Row(row) == {p[1] : p \in {q \in Painted(wire) : q[2] = row}}

C32_FilledCoversOutline ==
    Called("ILI9341DrawFilledCircle") =>
        LET x0 == LastCall.args[1]
            y0 == LastCall.args[2]
            r == LastCall.args[3]
            outline == ILI9341DrawCircle(x0, y0, r, LastCall.args[4])
        IN  (InPanel(x0 - r, y0 - r) /\ InPanel(x0 + r, y0 + r)) =>
                /\ Len(outline) \in Nat /\ Len(wire) \in Nat
                /\ Painted(outline) \subseteq Painted(wire)
                /\ \A row \in (y0 - r)..(y0 + r) :
                      \E h \in 0..r : C32_Row(row) = (x0 - h)..(x0 + h)

\* the largest circle that touches the left and top edges: its equator is
\* the full span and a row off the equator is a shorter one
C32_Witness ==
    /\ Called("ILI9341DrawFilledCircle")
    /\ LastCall.args[1] = MaxRadius /\ LastCall.args[2] = MaxRadius
    /\ LastCall.args[3] = MaxRadius
    /\ C32_Row(MaxRadius) = 0..(2 * MaxRadius)
    /\ \E row \in 1..(MaxRadius - 1) :
          C32_Row(row) # {} /\ C32_Row(row) # 0..(2 * MaxRadius)

(***************************************************************************)
(* C33  Under FairSpec.  The stopwatch cannot deadlock on its mutexes: no  *)
(* task ever holds semDecimas and semParciales at the same time; a task    *)
(* that has taken a mutex gives that mutex itself before it blocks (delay, *)
(* event wait) or takes again, so a mutex only passes from its holder to   *)
(* "free" and only by a step of the holder; and every task that waits at a *)
(* take obtains the mutex it waits for.                                    *)
(***************************************************************************)
\* the mutex each xSemaphoreTake asks for
C33_Wanted ==
    [decimasTask |-> [L68 |-> "semDecimas"],
     displayTask |-> [L92 |-> "semParciales", L104 |-> "semDecimas",
                      L138 |-> "semParciales", L146 |-> "semParciales"],
     toggleTask |-> [L200 |-> "semDecimas"]]

C33_AtMostOne ==
    \A t \in Tasks :
        /\ Cardinality(Held(t)) <= 1
        /\ pc[t] \in TakeLabels \cup WaitLabels \cup DelayLabels => Held(t) = {}

C33_GiveStep ==
    \A m \in DOMAIN sem : \A t \in Tasks :
        (sem[m] = t /\ sem'[m] # t) => (sem'[m] = "free" /\ pc'[t] # pc[t])

C33_Obtains ==
    \A t \in DOMAIN C33_Wanted : \A label \in DOMAIN C33_Wanted[t] :
        (pc[t] = label) ~> (sem[C33_Wanted[t][label]] = t)

C33_NoDeadlock == []C33_AtMostOne /\ [][C33_GiveStep]_vars /\ C33_Obtains

\* toggleTask waits for semDecimas, which decimasTask holds, while
\* displayTask waits for it as well
C33_Witness ==
    /\ pc["toggleTask"] = "L200"
    /\ pc["displayTask"] = "L104"
    /\ sem.semDecimas = "decimasTask"

(***************************************************************************)
(* C34  Under AppSpec.  No press of the start/stop button is lost or       *)
(* merged: every falling edge that ButtonEvents_Task detects leads to one  *)
(* flip of arrancar by toggleTask of its own.  toggleTask flips once per   *)
(* return of xEventGroupWaitBits with the start/stop bit, so each detected *)
(* edge has to raise an event of its own: when line 33 sets the bit, the   *)
(* bit of the edge before has been taken by toggleTask.                    *)
(***************************************************************************)
C34_EdgeDetected ==
    pc["ButtonEvents_Task"] = "L33" /\ pc'["ButtonEvents_Task"] # "L33"

C35_NeverRunningAndFrozen ==
    botonesEstado.arrancar = 1 => botonesEstado.congelar = 0

(***************************************************************************)
(* C36  Under AppSpec.  An iteration of displayTask that observes          *)
(* congelar = 1 at line 105 leaves the displayed time (total) unchanged;   *)
(* one that observes congelar = 0 sets total to the value decimas has at   *)
(* that moment, read while displayTask holds semDecimas.  No other step    *)
(* of the application changes total.                                       *)
(***************************************************************************)
C36_Observes == pc["displayTask"] = "L105" /\ pc'["displayTask"] # "L105"

C36_FrozenStep ==
    /\ C36_Observes =>
          /\ sem.semDecimas = "displayTask"
          /\ display'.total = IF botonesEstado.congelar # 0 THEN display.total ELSE decimas
    /\ ~C36_Observes => display'.total = display.total

C36_FrozenKeepsTotal == [][C36_FrozenStep]_vars

\* displayTask has just looked at the frozen stopwatch: the time it shows
\* is one it has read before, and it is not the value of the counter
C36_Witness ==
    /\ pc["displayTask"] = "L107"
    /\ botonesEstado.congelar = 1
    /\ display.total # U32Zero
    /\ display.total # decimas
    /\ sem.semDecimas = "displayTask"

(***************************************************************************)
(* C37  Under AppSpec.  Whenever the stopwatch is stopped and frozen       *)
(* (arrancar = 0, congelar = 1) and displayTask has completed an iteration *)
(* since the stop, the time shown (total) equals the value of decimas at   *)
(* which counting stopped.                                                 *)
(***************************************************************************)
\* toggleTask has finished the stop and decimasTask is between two of its
\* iterations: decimas is the value at which counting stopped
C37_Stopped ==
    /\ botonesEstado.arrancar = 0 /\ botonesEstado.congelar = 1
    /\ pc["toggleTask"] = "L178"
    /\ pc["decimasTask"] \in {"L68", "L75"}

\* displayTask is at the delay that ends an iteration in which it has seen
\* the stopwatch frozen at line 91 (actualizo was cleared and no lap taken),
\* so that its lines 104-107 ran after the stop
C37_IterationSinceStop ==
    /\ pc["displayTask"] = "L165"
    /\ display.actualizo = 0

C37_ShowsStopValue ==
    (C37_Stopped /\ C37_IterationSinceStop) => display.total = decimas

====
